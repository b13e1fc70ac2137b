----------------------------- MODULE Collation -----------------------------
(***************************************************************************)
(* Block production with this runtime (runtime/src) by collators that run  *)
(* start_consensus (node/src/service.rs).  Extrinsics wait in a pool, the  *)
(* authority of a slot builds a block out of them on its head, the block   *)
(* joins the unincluded segment and the relay chain includes it later, or  *)
(* another one, in which case a part of the segment is retracted.          *)
(*                                                                         *)
(* Weights are in units of ExtrinsicBaseWeight (125 microseconds), money   *)
(* in MICRO_UNITs: the constants of the code are exact in these units.     *)
(* The proof size, the second dimension of a weight, is left out.  Slots   *)
(* are counted back from the current one and are the same from two on.     *)
(***************************************************************************)
EXTENDS Naturals, Sequences, FiniteSets, Functions

CONSTANTS
    Accounts,     \* accounts that sign and receive
    Endowed,      \* those of them the genesis endows
    Endowment,    \* with that much
    Authorities,  \* the initial collators, in the order of their slots
    Extrinsics,   \* the signed extrinsics users may submit
    HooksWeight,  \* what the hooks of the pallets and the calls of the inherents use
    QueueLoads,   \* weights the message queue may find work for
    None,         \* no block under construction
    MaxRetractions \* bound of the model

\* An extrinsic: its signer and nonce, its dispatch class, weight and length, and
\* the transfer its call makes (AllowDeath, as in mint_nft).
Extrinsic == [who : Accounts, nonce : Nat, class : {"Normal", "Operational"}, weight : Nat,
              length : Nat, to : Accounts, value : Nat]

ASSUME CollationAssumption ==
    /\ IsFiniteSet(Accounts)
    /\ Endowed \subseteq Accounts
    /\ Authorities \in Seq(Range(Authorities)) /\ Authorities # <<>>
    /\ IsFiniteSet(Extrinsics) /\ Extrinsics \subseteq Extrinsic
    /\ \A t \in Extrinsics : t.who # t.to
    /\ QueueLoads \subseteq Nat
    /\ MaxRetractions \in Nat /\ Endowment \in Nat

VARIABLES
    pool,      \* extrinsics that wait
    base,      \* the state after the last included block
    segment,   \* the unincluded segment: blocks with the extrinsics in them and the state after
    building,  \* the block under construction
    turn,      \* whose slot it is: the slot modulo the number of authorities
    reported,  \* extrinsics reported as being in a block (history)
    refused,   \* <<account, nonce>> for which an extrinsic could not be paid (history)
    retractions   \* counter of the bound

Collators == Range(Authorities)

\* Aura: the authority of the slot `age` slots ago.
slot_author(age) ==
    LET n == Len(Authorities) IN Authorities[((turn + age * (n - 1)) % n) + 1]

chainVars == <<base, segment>>
poolVars == <<pool, reported, refused>>
collationVars == <<poolVars, chainVars, building, turn, retractions>>

------------------------------------------------------------------------------
(***************************************************************************)
(* Parameters of the runtime.                                              *)
(***************************************************************************)
MILLI_UNIT == 1000
EXISTENTIAL_DEPOSIT == MILLI_UNIT
TransactionByteFee == 10

ExtrinsicBaseWeight == 1
BlockExecutionWeight == 40
MAXIMUM_BLOCK_WEIGHT == 16000

\* Mutant: the queue gets almost half of the block.
MessageQueueServiceWeightHigh == (45 * MAXIMUM_BLOCK_WEIGHT) \div 100

MessageQueueServiceWeight == (35 * MAXIMUM_BLOCK_WEIGHT) \div 100

NormalMax == (75 * MAXIMUM_BLOCK_WEIGHT) \div 100
AverageOnInitialize == (5 * MAXIMUM_BLOCK_WEIGHT) \div 100

\* "We assume that ~5% of the block weight is consumed by `on_initialize` handlers".
ASSUME HooksAssumption == HooksWeight \in 0 .. AverageOnInitialize

\* Every block begins with two inherents, timestamp.set and set_validation_data.
InherentsWeight == 2 * ExtrinsicBaseWeight + HooksWeight

\* Mutant: what is reserved for operational extrinsics is not reduced by the share of
\* the normal ones.
RuntimeBlockWeightsAllReserved ==
    [Normal |-> [max_total |-> NormalMax, reserved |-> 0,
                 max_extrinsic |-> NormalMax - AverageOnInitialize - ExtrinsicBaseWeight],
     Operational |-> [max_total |-> MAXIMUM_BLOCK_WEIGHT, reserved |-> MAXIMUM_BLOCK_WEIGHT,
                      max_extrinsic |-> MAXIMUM_BLOCK_WEIGHT - AverageOnInitialize - ExtrinsicBaseWeight]]

\* BlockWeights: what a class may take of a block, what of it is there even in a
\* full block, and the largest extrinsic.
RuntimeBlockWeights ==
    [Normal |-> [max_total |-> NormalMax, reserved |-> 0,
                 max_extrinsic |-> NormalMax - AverageOnInitialize - ExtrinsicBaseWeight],
     Operational |-> [max_total |-> MAXIMUM_BLOCK_WEIGHT, reserved |-> MAXIMUM_BLOCK_WEIGHT - NormalMax,
                      max_extrinsic |-> MAXIMUM_BLOCK_WEIGHT - AverageOnInitialize - ExtrinsicBaseWeight]]

UNINCLUDED_SEGMENT_CAPACITY == 3
BLOCK_PROCESSING_VELOCITY == 1

WeightToFee(weight) ==
    LET p == MILLI_UNIT \div 10
        q == 100 * ExtrinsicBaseWeight
    IN (p \div q) * weight + ((p % q) * weight) \div q

Fee(t) == WeightToFee(ExtrinsicBaseWeight + t.weight) + TransactionByteFee * t.length

------------------------------------------------------------------------------
(***************************************************************************)
(* States of the chain.  What the properties need of the past is kept in   *)
(* them: how often an extrinsic was applied and an account died.           *)
(***************************************************************************)
testnet_genesis ==
    [nonce |-> [a \in Accounts |-> 0],
     balance |-> [a \in Accounts |-> IF a \in Endowed THEN Endowment ELSE 0],
     age |-> 2, authored |-> 0,
     applied |-> [t \in Extrinsics |-> 0], deaths |-> [a \in Accounts |-> 0]]

HeadOf(b, blocks) == IF blocks = <<>> THEN b ELSE blocks[Len(blocks)].post
Best == HeadOf(base, segment)

Tag(t) == <<t.who, t.nonce>>
Tags(txs) == {Tag(t) : t \in txs}

\* An account with less than the existential deposit is removed, and its nonce with it.
Reaped(st, who) ==
    IF st.balance[who] >= EXISTENTIAL_DEPOSIT THEN st
    ELSE [st EXCEPT !.balance[who] = 0, !.nonce[who] = 0, !.deaths[who] = @ + 1]

\* Mutant: the receiver is credited and the sender not debited.
DispatchedNoDebit(st, t) ==
    IF st.balance[t.who] >= t.value /\ st.balance[t.to] + t.value >= EXISTENTIAL_DEPOSIT
    THEN Reaped([st EXCEPT !.balance[t.to] = @ + t.value], t.who)
    ELSE st

\* The call: a transfer, or nothing when it fails.
Dispatched(st, t) ==
    IF st.balance[t.who] >= t.value /\ st.balance[t.to] + t.value >= EXISTENTIAL_DEPOSIT
    THEN Reaped([st EXCEPT !.balance[t.who] = @ - t.value, !.balance[t.to] = @ + t.value], t.who)
    ELSE st

\* ChargeTransactionPayment: the fee keeps the account alive, and is burnt.
CanPay(st, t) == st.balance[t.who] >= Fee(t) + EXISTENTIAL_DEPOSIT

\* Applied: the nonce and the fee are used up whatever the call does.
Applied(st, t) ==
    Dispatched([st EXCEPT !.nonce[t.who] = @ + 1, !.balance[t.who] = @ - Fee(t),
                          !.applied[t] = @ + 1], t)

\* SignedExtra in validate_transaction: a nonce that has not passed, an extrinsic that
\* fits a block at all, and the fee.
validate_transaction(st, t) ==
    /\ st.nonce[t.who] <= t.nonce
    /\ t.weight <= RuntimeBlockWeights[t.class].max_extrinsic
    /\ CanPay(st, t)

------------------------------------------------------------------------------
(***************************************************************************)
(* CheckWeight.  The class must not exceed its share; when the block is    *)
(* full, only what is reserved for the class is left.                      *)
(***************************************************************************)
Total(weight) == weight.Normal + weight.Operational + weight.Mandatory

Consumed(weight, t) == [weight EXCEPT ![t.class] = @ + t.weight + ExtrinsicBaseWeight]

Fits(weight, t) ==
    LET after == Consumed(weight, t)
        limit == RuntimeBlockWeights[t.class]
    IN /\ t.weight <= limit.max_extrinsic
       /\ after[t.class] <= limit.max_total
       /\ Total(after) > MAXIMUM_BLOCK_WEIGHT => after[t.class] <= limit.reserved

(***************************************************************************)
(* FixedVelocityConsensusHook, on a state n blocks after the included one, *)
(* for a slot `age` slots ago.                                             *)
(***************************************************************************)
\* Mutant: a full segment takes one more.
can_build_upon_full(st, n, age) ==
    /\ n <= UNINCLUDED_SEGMENT_CAPACITY
    /\ IF st.age = age THEN st.authored < BLOCK_PROCESSING_VELOCITY + 1 ELSE st.age > age

can_build_upon(st, n, age) ==
    /\ n < UNINCLUDED_SEGMENT_CAPACITY
    /\ IF st.age = age THEN st.authored < BLOCK_PROCESSING_VELOCITY + 1 ELSE st.age > age

------------------------------------------------------------------------------
(***************************************************************************)
(* The pool.  Of two extrinsics with the same nonce only one waits; the    *)
(* other is turned down or, with a higher priority, takes its place.       *)
(***************************************************************************)
\* Mutant: the one that waits stays.
submit_besides(t) ==
    /\ t \notin pool
    /\ validate_transaction(Best, t)
    /\ pool' = pool \cup {t}
    /\ UNCHANGED <<reported, refused, chainVars, building, turn, retractions>>

submit(t) ==
    /\ t \notin pool
    /\ validate_transaction(Best, t)
    /\ pool' = {u \in pool : Tag(u) # Tag(t)} \cup {t}
    /\ UNCHANGED <<reported, refused, chainVars, building, turn, retractions>>

(***************************************************************************)
(* Blocks.  The authority of the current slot, or of the one before when   *)
(* its relay parent is that old, starts one; a block of the other author   *)
(* on the same parent is then no longer wanted.  In on_initialize the      *)
(* message queue works off its load, up to a limit; then come the          *)
(* inherents, and after them what the proposer takes from the pool.        *)
(***************************************************************************)
Serviced(load) == IF load < MessageQueueServiceWeight THEN load ELSE MessageQueueServiceWeight

initialize_block(c, age, load) ==
    /\ c = slot_author(age)
    /\ building # None => building.author # c
    /\ can_build_upon(Best, Len(segment), age)
    /\ building' = [author |-> c, txs |-> {},
                    weight |-> [Normal |-> 0, Operational |-> 0,
                                Mandatory |-> BlockExecutionWeight + InherentsWeight + Serviced(load)],
                    post |-> [Best EXCEPT !.age = age,
                                          !.authored = IF Best.age = age THEN @ + 1 ELSE 1]]
    /\ UNCHANGED <<poolVars, chainVars, turn, retractions>>

\* Mutant: CheckNonce is not among the extensions.
apply_extrinsic_any_nonce(t) ==
    /\ building # None
    /\ t \in pool
    /\ CanPay(building.post, t)
    /\ Fits(building.weight, t)
    /\ building' = [building EXCEPT !.txs = @ \cup {t}, !.weight = Consumed(@, t), !.post = Applied(@, t)]
    /\ UNCHANGED <<poolVars, chainVars, turn, retractions>>

apply_extrinsic(t) ==
    /\ building # None
    /\ t \in pool \ building.txs
    /\ t.nonce = building.post.nonce[t.who]
    /\ CanPay(building.post, t)
    /\ Fits(building.weight, t)
    /\ building' = [building EXCEPT !.txs = @ \cup {t}, !.weight = Consumed(@, t), !.post = Applied(@, t)]
    /\ UNCHANGED <<poolVars, chainVars, turn, retractions>>

\* The proposer meets one that cannot pay any more: it leaves the pool.
reportInvalid(t) ==
    /\ building # None
    /\ t \in pool \ building.txs
    /\ t.nonce = building.post.nonce[t.who]
    /\ ~CanPay(building.post, t)
    /\ pool' = pool \ {t}
    /\ refused' = refused \cup {Tag(t)}
    /\ UNCHANGED <<reported, chainVars, building, turn, retractions>>

\* The block is sealed and imported as the best one, which prunes the pool.
finalize_block ==
    /\ building # None
    /\ segment' = Append(segment, [txs |-> building.txs, post |-> building.post])
    /\ pool' = {t \in pool : Tag(t) \notin Tags(building.txs)}
    /\ reported' = reported \cup building.txs
    /\ building' = None
    /\ UNCHANGED <<refused, base, turn, retractions>>

(***************************************************************************)
(* Time and the relay chain.                                               *)
(***************************************************************************)
\* From two slots ago on, how many blocks a slot had makes no difference any more.
Older(st) == IF st.age = 0 THEN [st EXCEPT !.age = 1] ELSE [st EXCEPT !.age = 2, !.authored = 0]

\* The next slot, whose authority is the next in turn.
nextSlot ==
    /\ turn' = (turn + 1) % Len(Authorities)
    /\ base' = Older(base)
    /\ segment' = [i \in DOMAIN segment |-> [segment[i] EXCEPT !.post = Older(@)]]
    /\ building' = IF building = None THEN None ELSE [building EXCEPT !.post = Older(@)]
    /\ UNCHANGED <<poolVars, retractions>>

include ==
    /\ segment # <<>>
    /\ base' = segment[1].post
    /\ segment' = Tail(segment)
    /\ UNCHANGED <<poolVars, building, turn, retractions>>

\* Mutant: the extrinsics of a retracted block are forgotten.
ResubmittedNone(txs, st) == {{}}

\* The pool takes back what was in the retracted blocks and is valid on the new head;
\* of several with the same nonce, one.
Resubmitted(txs, st) ==
    LET valid == {t \in txs : validate_transaction(st, t) /\ Tag(t) \notin Tags(pool)}
    IN {s \in SUBSET valid : /\ \A t, u \in s : Tag(t) = Tag(u) => t = u
                             /\ Tags(s) = Tags(valid)}

\* A block from the k-th on turn out not to be on the relay chain's choice.
retract(k) ==
    LET kept == SubSeq(segment, 1, k - 1)
        lost == UNION {segment[i].txs : i \in k .. Len(segment)}
        head == HeadOf(base, kept)
    IN
    /\ retractions < MaxRetractions
    /\ retractions' = retractions + 1
    /\ segment' = kept
    /\ building' = None
    /\ \E s \in Resubmitted(lost, head) : pool' = pool \cup s
    /\ refused' = refused \cup {Tag(t) : t \in {u \in lost : ~CanPay(head, u)}}
    /\ UNCHANGED <<reported, base, turn>>

\* A collator stops, and with it the block it builds.  While it is down it takes no
\* step; that some collator takes its turn is left to the fairness below.
crash ==
    /\ building # None
    /\ building' = None
    /\ UNCHANGED <<poolVars, chainVars, turn, retractions>>

------------------------------------------------------------------------------
CollationInit ==
    /\ pool = {} /\ reported = {} /\ refused = {}
    /\ base = testnet_genesis /\ segment = <<>>
    /\ building = None
    /\ turn = 0
    /\ retractions = 0

CollationNext ==
    \/ \E t \in Extrinsics : submit(t) \/ apply_extrinsic(t) \/ reportInvalid(t)
    \/ \E c \in Collators, age \in 0 .. 1, load \in QueueLoads :
          initialize_block(c, age, load)
    \/ finalize_block
    \/ nextSlot
    \/ include
    \/ \E k \in DOMAIN segment : retract(k)
    \/ crash

(***************************************************************************)
(* Slots pass and the relay chain includes what it is offered.  Authoring  *)
(* takes a third of a slot, so a collator whose slot comes again and again *)
(* gets to build and to seal a block; and the proposer, which goes through *)
(* the whole pool, takes what it could take again and again.               *)
(***************************************************************************)
CollationSpec ==
    /\ CollationInit /\ [][CollationNext]_collationVars
    /\ WF_collationVars(nextSlot) /\ WF_collationVars(include)
    /\ SF_collationVars(\E c \in Collators, load \in QueueLoads :
                           initialize_block(c, 0, load))
    /\ \A t \in Extrinsics :
          /\ SF_collationVars(apply_extrinsic(t) \/ reportInvalid(t))
          /\ SF_collationVars(finalize_block /\ t \in building.txs)

------------------------------------------------------------------------------
(***************************************************************************)
(* Properties.                                                             *)
(***************************************************************************)
\* The states of the chain there are: the included one, those of the segment, the one
\* a block is being built in.
ChainStates == {base} \cup {segment[i].post : i \in DOMAIN segment}
                      \cup (IF building = None THEN {} ELSE {building.post})

State == [nonce : [Accounts -> Nat], balance : [Accounts -> Nat], age : 0 .. 2, authored : Nat,
          applied : [Extrinsics -> Nat], deaths : [Accounts -> Nat]]

Block == [txs : SUBSET Extrinsics, post : State]

Weights == [Normal : Nat, Operational : Nat, Mandatory : Nat]

\* Types, and no two extrinsics of the pool claim the same nonce of an account.
CollationTypeOK ==
    /\ pool \subseteq Extrinsics
    /\ \A t, u \in pool : Tag(t) = Tag(u) => t = u
    /\ base \in State /\ segment \in Seq(Block)
    /\ building \in {None} \cup
          [author : Collators, txs : SUBSET Extrinsics, weight : Weights, post : State]
    /\ turn \in 0 .. Len(Authorities) - 1
    /\ reported \subseteq Extrinsics /\ refused \subseteq Accounts \X Nat
    /\ retractions \in 0 .. MaxRetractions

(***************************************************************************)
(* An extrinsic is applied once on any chain, through forks, retractions   *)
(* and resubmissions, and once more at most for each time its account was  *)
(* removed: the removal takes the nonce with it.                           *)
(***************************************************************************)
AppliedOnce ==
    \A st \in ChainStates, t \in Extrinsics : st.applied[t] <= 1 + st.deaths[t.who]

\* What the accounts hold, the fees of all that was applied, and the accounts that died.
Held(st) == SumFunction(st.balance)
FeesPaid(st) == SumFunction([t \in Extrinsics |-> st.applied[t] * Fee(t)])
Deaths(st) == SumFunction(st.deaths)

MoneyOK(st) ==
    LET endowed == Cardinality(Endowed) * Endowment IN
    /\ Held(st) + FeesPaid(st) <= endowed
    /\ endowed <= Held(st) + FeesPaid(st) + Deaths(st) * (EXISTENTIAL_DEPOSIT - 1)

(***************************************************************************)
(* Money: what the accounts hold and the fees of all that was applied come *)
(* to what the genesis endowed, less the dust of the accounts that died,   *)
(* each of which had less than the existential deposit.  No call makes     *)
(* money, and none is lost with a call that fails or a block that is       *)
(* retracted.                                                              *)
(***************************************************************************)
MoneyIsAccountedFor == \A st \in ChainStates : MoneyOK(st)

(***************************************************************************)
(* "We allow `Normal` extrinsics to fill up the block up to 75%, the rest  *)
(* can be used by `Operational` extrinsics": normal ones never push what   *)
(* on_initialize took over the limit, and a block exceeds it by no more    *)
(* than the part reserved for operational ones.                            *)
(***************************************************************************)
BlockNotOverfull ==
    building # None =>
        LET w == building.weight IN
        /\ w.Normal <= NormalMax
        /\ w.Normal > 0 => w.Normal + w.Mandatory <= MAXIMUM_BLOCK_WEIGHT
        /\ Total(w) <= MAXIMUM_BLOCK_WEIGHT + (MAXIMUM_BLOCK_WEIGHT - NormalMax)

(***************************************************************************)
(* "Maximum number of blocks simultaneously accepted by the Runtime, not   *)
(* yet included": the segment keeps to it, no slot has more blocks than    *)
(* the velocity allows, and the slots of the chain do not go back.         *)
(***************************************************************************)
SegmentInBounds ==
    /\ Len(segment) <= UNINCLUDED_SEGMENT_CAPACITY
    /\ \A st \in ChainStates : st.authored <= BLOCK_PROCESSING_VELOCITY + 1
    /\ segment # <<>> => base.age >= segment[1].post.age
    /\ \A i, j \in DOMAIN segment : i < j => segment[i].post.age >= segment[j].post.age

(***************************************************************************)
(* The pages act on isInBlock.  What was reported to be in a block either  *)
(* is in the best chain (or another one with its nonce is), or waits       *)
(* again, or could not be paid after a retraction, or its account died.    *)
(***************************************************************************)
ReportedIsNotLost ==
    \A t \in reported :
        \/ Best.nonce[t.who] > t.nonce
        \/ Tag(t) \in Tags(pool) \cup refused
        \/ Best.deaths[t.who] > 0

\* An extrinsic that fits beside the inherents and a message queue that takes all it may.
FitsAnyBlock(t) ==
    LET busy == BlockExecutionWeight + InherentsWeight + (35 * MAXIMUM_BLOCK_WEIGHT) \div 100
    IN Fits([Normal |-> 0, Operational |-> 0, Mandatory |-> busy], t)

(***************************************************************************)
(* A normal one that is ready is settled: the relay chain includes it, or  *)
(* another one with its nonce, unless it cannot be paid or the account     *)
(* dies.  Those too heavy for a block with a busy message queue are        *)
(* excepted: the largest extrinsic is derived from 5% for on_initialize,   *)
(* and the queue alone may take 35%.                                       *)
(***************************************************************************)
ReadySettles ==
    \A g \in Tags({t \in Extrinsics : t.class = "Normal"}) :
        (\A t \in Extrinsics : Tag(t) = g => FitsAnyBlock(t)) =>
        (g \in Tags(pool) /\ g[2] = Best.nonce[g[1]]
            ~> base.nonce[g[1]] > g[2] \/ g \in refused \/ base.deaths[g[1]] > 0)

=============================================================================
