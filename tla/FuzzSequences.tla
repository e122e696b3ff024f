--------------------------- MODULE FuzzSequences ----------------------------
(***************************************************************************)
(* The fuzz target fuzz/fuzz_targets/fuzz_sequences.rs: any sequence of    *)
(* operations on a PulseMap, mirrored in a shadow map, with the harness's  *)
(* assertions.  A byte stream that parse_op accepts is a sequence of the   *)
(* operations below; one that it does not ends the run.                    *)
(***************************************************************************)
EXTENDS PulseMapRaw

CONSTANTS Dummies,    \* the throwaway keys of AdvanceEpoch, in their order
          DummyVal

ASSUME FuzzAssumption ==
    /\ Dummies \in Seq(Keys) /\ DummyVal \in Values
    /\ 0 \in Ttls /\ NoValue \notin Values

VARIABLES shadow,     \* the last value inserted for a key and not removed
          step,       \* the operation in progress
          panicked    \* an assertion has failed

fuzzVars == <<vars, shadow, step, panicked>>

FuzzInit == /\ Init
            /\ shadow = [k \in Keys |-> NoValue]
            /\ step = [op |-> "parse"] /\ panicked = FALSE

(* check_hit: a miss is always legal, a hit must be what the shadow says.  *)
CheckHit(k, got) == got = NoValue \/ got = shadow[k]

(* The assertions made after every operation, and those of the operation.  *)
Asserts(ok) == panicked' = ~(ok /\ count' <= NumBuckets * SlotsPerBucket)

Parses(op)  == step.op = "parse" /\ op
Done        == step' = [op |-> "parse"]
InsertMirrored(k, v, n) == (Update(k, v, n) \/ InsertNew(k, v, n)) /\ shadow' = [shadow EXCEPT ![k] = v]

(* Insert, and InsertTtl with a TTL that fits a byte.                      *)
FuzzInsert(k, v, n) == Parses(InsertMirrored(k, v, n)) /\ Done /\ Asserts(TRUE)

FuzzGet(k) == /\ Parses(Get(k)) /\ Done /\ Asserts(CheckHit(k, ret'.res))
              /\ UNCHANGED shadow

FuzzRemove(k) ==
    /\ Parses(RemoveFound(k) \/ RemoveMissing(k))
    /\ shadow' = [shadow EXCEPT ![k] = NoValue]
    /\ step' = [op |-> "removed", key |-> k]
    /\ UNCHANGED panicked

(* Nothing may resurrect a removed key.                                    *)
GetAfterRemove == /\ step.op = "removed" /\ Get(step.key)
                  /\ Done /\ Asserts(ret'.res = NoValue)
                  /\ UNCHANGED shadow

FuzzPeek(k) == /\ Parses(Peek(k)) /\ step' = [op |-> "peeked", key |-> k, got |-> ret'.res]
               /\ UNCHANGED <<shadow, panicked>>

GetAfterPeek ==
    /\ step.op = "peeked" /\ Get(step.key)
    /\ Done
    /\ Asserts(/\ (step.got = NoValue) = (ret'.res = NoValue)
               /\ CheckHit(step.key, step.got) /\ CheckHit(step.key, ret'.res))
    /\ UNCHANGED shadow

(* AdvanceEpoch inserts the first n dummies.                               *)
FuzzAdvance(n) == /\ Parses(current_epoch + n <= MaxEpoch)
                  /\ step' = [op |-> "advance", i |-> 1, steps |-> n]
                  /\ UNCHANGED <<vars, shadow, panicked>>

AdvanceNext ==
    /\ step.op = "advance"
    /\ InsertMirrored(Dummies[step.i], DummyVal, 0)
    /\ IF step.i = step.steps THEN Done /\ Asserts(TRUE)
       ELSE step' = [step EXCEPT !.i = @ + 1] /\ UNCHANGED panicked

FuzzNext ==
    /\ ~panicked
    /\ \/ \E k \in Keys, v \in Values, n \in Ttls : FuzzInsert(k, v, n)
       \/ \E k \in Keys : FuzzGet(k) \/ FuzzRemove(k) \/ FuzzPeek(k)
       \/ \E n \in DOMAIN Dummies : FuzzAdvance(n)
       \/ GetAfterRemove \/ GetAfterPeek \/ AdvanceNext

FuzzSpec == FuzzInit /\ [][FuzzNext]_fuzzVars
-----------------------------------------------------------------------------
(* No sequence of operations makes an assertion of the harness fail: every *)
(* hit is the last value inserted for that very key, peek and get agree,   *)
(* a removed key stays away, and len never exceeds the capacity.           *)
NoPanic == ~panicked
=============================================================================
