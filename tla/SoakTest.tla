------------------------------ MODULE SoakTest ------------------------------
(***************************************************************************)
(* The endurance test examples/soak_test.rs as a client of the sharded map.*)
(* Worker threads call the map without pause; the main thread samples the  *)
(* statistics and re-inserts and reads back a sentinel key, and ends the   *)
(* test when a check fails.  The workers of the example insert and get;    *)
(* here they make any of the given Calls.  The main thread's resident-size *)
(* check and its clock are left out.                                       *)
(***************************************************************************)
EXTENDS ShardedPulseMap

CONSTANTS Main,         \* the main thread, one of Threads
          Sentinel,     \* a key that only the main thread inserts
          SentinelTtl, TtlEpochs,
          Calls,        \* what each worker calls
          MaxTick       \* bound on the rounds of the main loop

(* The calls a thread may make: values and TTLs are numbers here, and the  *)
(* argument of resize_all is the power of two that resize rounds it up to. *)
Ops      == {"none", "insert", "get", "remove", "set_ttl", "resize_all", "len", "capacity",
             "eviction_count", "current_epoch", "is_empty", "get_ttl"}
Requests == [op : Ops, key : Keys \cup {NoValue}, val : Nat, n : Nat]
Legal(c) == /\ c \in Requests
            /\ c.op \in {"insert", "get", "remove"} => c.key \in Keys
            /\ c.op = "resize_all" => IsPowerOfTwo(c.n)

ASSUME SoakAssumption ==
    /\ Main \in Threads /\ Sentinel \in Keys
    /\ SentinelTtl \in Nat /\ TtlEpochs \in Nat /\ MaxTick \in Nat
    /\ \A t \in Threads \ {Main} : \A c \in Calls[t] :
          Legal(c) /\ ~(c.op = "insert" /\ c.key = Sentinel)

VARIABLE mon   \* the main thread: where it is, its samples, what failed

soakVars == <<vars, mon>>

(* set_ttl is called before any thread exists.                             *)
SoakInit ==
    /\ Init
    /\ mon = [pc |-> "set_ttl", len |-> 0, cap |-> 0, last |-> 0, tick |-> 0,
              fail |-> {}]

(* The main thread is between two calls and continues at pc.               *)
Ready(pc)      == mon.pc = pc /\ call[Main].stage = "done"
Does(op)       == Invoke(Main, Request(op, NoValue, 0, 0))
GoesTo(pc)     == mon' = [mon EXCEPT !.pc = pc]
Result         == call[Main].res
Silent         == UNCHANGED <<shardVars, call>>
PutSentinel(v) == Invoke(Main, Request("insert", Sentinel, v, SentinelTtl))

Prime ==
    \/ /\ Ready("set_ttl") /\ GoesTo("prime")
       /\ Invoke(Main, Request("set_ttl", NoValue, 0, TtlEpochs))
    \/ Ready("prime") /\ PutSentinel(0) /\ GoesTo("len")

(* while: the loop goes on unless a check has failed.                      *)
SampleLen ==
    /\ Ready("len") /\ mon.fail = {} /\ mon.tick < MaxTick
    /\ Does("len")
    /\ mon' = [mon EXCEPT !.pc = "capacity", !.tick = @ + 1]

SampleCapacity ==
    /\ Ready("capacity")
    /\ Does("capacity")
    /\ mon' = [mon EXCEPT !.pc = "evictions", !.len = Result]

SampleEvictions ==
    /\ Ready("evictions")
    /\ Does("eviction_count")
    /\ mon' = [mon EXCEPT !.pc = "check", !.cap = Result]

(* Both checks come after the three samples; the first that fails ends it. *)
CheckStats ==
    /\ Ready("check")
    /\ LET fails == IF mon.len > mon.cap THEN {"len exceeded capacity"}
                    ELSE IF Result < mon.last THEN {"eviction_count decreased"} ELSE {}
       IN  mon' = [mon EXCEPT !.pc = IF fails = {} THEN "sentinel" ELSE "stop",
                              !.len = 0, !.cap = 0, !.last = Result, !.fail = fails]
    /\ Silent

InsertSentinel == Ready("sentinel") /\ PutSentinel(mon.tick) /\ GoesTo("get")

ReadSentinel ==
    /\ Ready("get") /\ GoesTo("verify")
    /\ Invoke(Main, Request("get", Sentinel, 0, 0))

VerifySentinel ==
    /\ Ready("verify")
    /\ mon' = [mon EXCEPT !.pc = "len",
                          !.fail = CASE Result = NoValue -> {"sentinel missing"}
                                     [] Result = mon.tick -> {}
                                     [] OTHER -> {"sentinel wrong value"}]
    /\ Silent

SoakNext ==
    /\ \/ \E t \in Threads : Step(t) /\ UNCHANGED mon
       \/ \E t \in Threads \ {Main} : \E c \in Calls[t] :
             /\ mon.pc # "set_ttl" /\ ~Running(Main, "set_ttl")
             /\ Invoke(t, c) /\ UNCHANGED mon
       \/ Prime \/ SampleLen \/ SampleCapacity \/ SampleEvictions \/ CheckStats
       \/ InsertSentinel \/ ReadSentinel \/ VerifySentinel
    /\ Watch

SoakSpec == SoakInit /\ [][SoakNext]_soakVars
-----------------------------------------------------------------------------
(* No check on the statistics fails, and the sentinel never has a value    *)
(* other than the last one inserted: len() read before capacity() is never *)
(* above it although both are sums over shards that change and grow        *)
(* meanwhile, and eviction_count never goes back.  (The sentinel may be    *)
(* missing: which entry of a full bucket is evicted is left open here.)    *)
StatisticsSound == mon.fail \subseteq {"sentinel missing"}
=============================================================================
