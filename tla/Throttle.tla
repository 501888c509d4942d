------------------------------ MODULE Throttle ------------------------------
(***************************************************************************)
(* The budget of failed log-ins per client and user name (core/throttle.py *)
(* and its use around the verification in api/deps.py 163-178). The check  *)
(* and the recording are separate critical sections, so requests of one    *)
(* client overlap; each reads the clock before it takes the lock, so they  *)
(* may enter it in another order; the table forgets keys when it is full.  *)
(*                                                                         *)
(* A failure is kept as its age; ages that expire for every reader of the  *)
(* clock are all the same.                                                 *)
(***************************************************************************)
EXTENDS Naturals, Sequences, FiniteSets, Functions

CONSTANTS Keys,         \* (client, user name) pairs
          Attempts,     \* requests in flight
          MAX_FAILURES, WINDOW, _MAX_KEYS,
          DELAY         \* bound: from reading the clock to holding the lock

NoKey == "none"

\* At least one failure is allowed, and half of a full table is something.
ASSUME ThrottleAssumption ==
    /\ IsFiniteSet(Attempts) /\ NoKey \notin Keys
    /\ MAX_FAILURES \in Nat \ {0} /\ WINDOW \in Nat /\ _MAX_KEYS \in Nat \ {0, 1}
    /\ DELAY \in Nat

VARIABLES failures,     \* key -> ages of its failures, in the order recorded
          trying        \* each request: how far, its key, the age of its clock

throttleVars == <<failures, trying>>

Oldest == WINDOW + DELAY + 1        \* every clock is past its window
NotTrying == [step |-> "none", key |-> NoKey, age |-> 0]

ThrottleInit == failures = << >> /\ trying = [r \in Attempts |-> NotTrying]

(* What is over for a clock read `age` ago.                                *)
Over(stamp, age) == stamp > WINDOW + age

_trim_Never(dq, age) == dq          \* mutant: the window is forgotten
\* Only from the left: what is over behind one that is not stays.
_trim(dq, age) ==
    LET kept == {i \in DOMAIN dq : ~Over(dq[i], age)}
    IN  IF kept = {} THEN << >>
        ELSE SubSeq(dq, CHOOSE i \in kept : \A j \in kept : i <= j, Len(dq))

Put(table, k, dq) == [x \in DOMAIN table \cup {k} |-> IF x = k THEN dq ELSE table[x]]

is_blocked_OneMore(k, age) ==       \* mutant: off by one
    k \in DOMAIN failures /\ Len(_trim(failures[k], age)) > MAX_FAILURES
is_blocked(k, age) ==
    k \in DOMAIN failures /\ Len(_trim(failures[k], age)) >= MAX_FAILURES

(* What is_blocked leaves in the table.                                    *)
Trimmed(k, age) ==
    IF k \in DOMAIN failures THEN Put(failures, k, _trim(failures[k], age)) ELSE failures

-----------------------------------------------------------------------------
Latest(table, k) == table[k][Len(table[k])]
Expired(k, age) == failures[k] = << >> \/ Over(Latest(failures, k), age)

\* mutant: the half with the newest failures goes
OldestHalf_Newest(table) ==
    {D \in SUBSET DOMAIN table :
        /\ Cardinality(D) = _MAX_KEYS \div 2
        /\ \A d \in D, k \in DOMAIN table \ D : Latest(table, d) <= Latest(table, k)}
OldestHalf(table) ==
    {D \in SUBSET DOMAIN table :
        /\ Cardinality(D) = _MAX_KEYS \div 2
        /\ \A d \in D, k \in DOMAIN table \ D : Latest(table, d) >= Latest(table, k)}

(* The tables eviction may leave behind.                                   *)
_evict(age) ==
    LET live == Restrict(failures, {k \in DOMAIN failures : ~Expired(k, age)}) IN
    IF Cardinality(DOMAIN live) < _MAX_KEYS THEN {live}
    ELSE {Restrict(live, DOMAIN live \ D) : D \in OldestHalf(live)}

Room(k, age) ==
    IF k \notin DOMAIN failures /\ Cardinality(DOMAIN failures) >= _MAX_KEYS
    THEN _evict(age) ELSE {failures}

record_failure(k, age) ==
    \E table \in Room(k, age) :
        LET dq == IF k \in DOMAIN table THEN table[k] ELSE << >>
        IN  failures' = Put(table, k, _trim(Append(dq, age), age))

record_success(k) == failures' = Restrict(failures, DOMAIN failures \ {k})

-----------------------------------------------------------------------------
(* A request goes on to the next step, where it has just read the clock.   *)
Proceeds(r, step, k) ==
    trying' = [trying EXCEPT ![r] = [step |-> step, key |-> k, age |-> 0]]
Leaves(r) == trying' = [trying EXCEPT ![r] = NotTrying]

(* subsonic_context up to the lock of is_blocked.                          *)
TryBegin(r, k) ==
    /\ trying[r].step = "none"
    /\ Proceeds(r, "check", k)
    /\ UNCHANGED failures

(* Under the lock; who is refused has not failed once more.                *)
TryCheck(r) ==
    /\ trying[r].step = "check"
    /\ failures' = Trimmed(trying[r].key, trying[r].age)
    /\ IF is_blocked(trying[r].key, trying[r].age)
       THEN Leaves(r) ELSE Proceeds(r, "verify", trying[r].key)

TryFails(r) ==
    /\ trying[r].step = "verify"
    /\ Proceeds(r, "record", trying[r].key)
    /\ UNCHANGED failures

TryRecord(r) ==
    /\ trying[r].step = "record"
    /\ record_failure(trying[r].key, trying[r].age)
    /\ Leaves(r)

TrySucceeds(r) ==
    /\ trying[r].step = "verify"
    /\ record_success(trying[r].key)
    /\ Leaves(r)

Waiting(r) == trying[r].step \in {"check", "record"}
Older(dq) == [i \in DOMAIN dq |-> IF dq[i] = Oldest THEN Oldest ELSE dq[i] + 1]

Tick ==
    /\ \A r \in Attempts : Waiting(r) => trying[r].age < DELAY
    /\ failures' = [k \in DOMAIN failures |-> Older(failures[k])]
    /\ trying' = [r \in Attempts |->
                     IF Waiting(r) THEN [trying[r] EXCEPT !.age = @ + 1] ELSE trying[r]]

ThrottleNext ==
    \/ \E r \in Attempts :
          \/ \E k \in Keys : TryBegin(r, k)
          \/ TryCheck(r) \/ TryFails(r) \/ TryRecord(r) \/ TrySucceeds(r)
    \/ Tick

(* Time passes and who waits for the lock gets it; clients need not ever   *)
(* answer, stop or start.                                                  *)
ThrottleFairness ==
    /\ WF_throttleVars(Tick)
    /\ \A r \in Attempts : WF_throttleVars(TryCheck(r)) /\ WF_throttleVars(TryRecord(r))

ThrottleSpec == ThrottleInit /\ [][ThrottleNext]_throttleVars /\ ThrottleFairness

-----------------------------------------------------------------------------
(* Failures by key, never more keys than the table has room for, even when *)
(* every key in it is live (throttle.py 25-28, 45-48, 70-71).              *)
ThrottleTypeOK ==
    /\ DOMAIN failures \subseteq Keys
    /\ failures \in [DOMAIN failures -> Seq(0..Oldest)]
    /\ IsFiniteSet(DOMAIN failures) /\ Cardinality(DOMAIN failures) <= _MAX_KEYS
    /\ trying \in [Attempts -> [step : {"none", "check", "verify", "record"},
                                key : Keys \cup {NoKey}, age : 0..DELAY]]
    /\ \A r \in Attempts : trying[r].step # "none" => trying[r].key \in Keys

(* However the requests of a client overlap, no more failures than the     *)
(* budget and one for each other request in flight are counted at a time   *)
(* (throttle.py 43-75, deps.py 170-175).                                   *)
BudgetHolds ==
    \A k \in DOMAIN failures :
        Len(failures[k]) <= MAX_FAILURES + Cardinality(Attempts) - 1

(* A full table forgets keys in the order of their latest failure, but for *)
(* the time requests wait for the lock: none is dropped while one is kept  *)
(* whose every failure is older by more than that (throttle.py 92-103,     *)
(* which takes the last entry for the latest, and 65-67, which may enter   *)
(* an earlier one after it).                                               *)
ForgetsOldestFirst ==
    [][\A r \in Attempts : TryRecord(r) =>
          \A d \in DOMAIN failures \ DOMAIN failures',
             k \in DOMAIN failures \cap DOMAIN failures' :
              \A i \in DOMAIN failures[d] : \E j \in DOMAIN failures[k] :
                  failures[k][j] <= failures[d][i] + DELAY]_throttleVars

(* A client that is shut out gets another chance, also one that keeps      *)
(* trying meanwhile: what is refused does not count (deps.py 163-171).     *)
ShutOut(k) == is_blocked(k, 0)
AnotherChance == \A k \in Keys : ShutOut(k) ~> ~ShutOut(k)
=============================================================================
