-------------------------------- MODULE Tick --------------------------------
(***************************************************************************)
(* The CPUs selected for a window while they test it: do_test (src/main.c) *)
(* and the test it invokes (src/common.c, src/test.c), do_tick and error() *)
(* (src/error.c), check_input and get_config as far as they set bail.      *)
(*                                                                         *)
(* Every test is a loop of do_tick, BAILR and the next piece of memory.    *)
(* s_barrier() is the rendezvous that module Barrier implements.  A piece  *)
(* may hold a memory error, which the CPU that finds it reports under      *)
(* barr->mutex.                                                            *)
(***************************************************************************)
EXTENDS Integers, FiniteSets

CONSTANTS RunCpus,     \* run_cpus: the CPUs are 0 .. RunCpus - 1
          Pieces,      \* the number of SPINSZ pieces of each CPU's part
          LeadBarrier, \* invoke_test does s_barrier() before the test
          Addresses,   \* v->printmode is PRINTMODE_ADDRESSES
          ErrorsAt,    \* where errors are: "usb" is 0x4e0 or 0x410
          MaxKeys,     \* bound on the configuration changes
          MaxErrors    \* bound on the memory errors

ASSUME RunAssumption == RunCpus \in Nat /\ RunCpus >= 2
ASSUME PiecesAssumption == Pieces \in Nat \ {0}
ASSUME ErrorsAssumption == ErrorsAt \subseteq {"usb", "other"}
ASSUME LeadAssumption == LeadBarrier \in BOOLEAN
ASSUME BoundsAssumption == MaxKeys \in Nat /\ MaxErrors \in Nat

CPU == 0 .. RunCpus - 1
mstr_cpu == RunCpus - 1   \* the highest CPU selected is the master
Nobody == RunCpus

VARIABLES
  bail,
  lower,    \* v->map[0].start: "bios" area included, or "raised" to 0x500
  start,    \* each CPU's local copy of it, "none" before it has one
  ticks,    \* calls of do_tick of each CPU
  nticks,
  mutex,    \* the owner of barr->mutex
  ecount,   \* v->ecount
  seen,     \* the value of ecount each CPU loaded in ++(v->ecount)
  found,    \* errors to be reported so far, a history variable
  changed,  \* the tick of the master's configuration change, 0 if none
  keys,
  stage,    \* where each CPU is in s_barrier(), a stage of Rendezvous
  pc

range == <<lower, start>>
count == <<mutex, ecount, seen, found>>
input == <<bail, changed, keys>>
vars  == <<range, ticks, nticks, count, input, stage, pc>>

B == INSTANCE Rendezvous

Sites == {"lead", "held"}   \* the calls of s_barrier()

Goto(p, from, to) == pc[p] = from /\ pc' = [pc EXCEPT ![p] = to]

\* The CPUs are past the s_barrier() that follows compute_segments; the program
\* has been relocated and tests the low window.
Init == /\ bail = 0
        /\ lower = "bios" /\ start = [p \in CPU |-> "none"]
        /\ ticks = [p \in CPU |-> 0] /\ nticks = 0
        /\ mutex = Nobody /\ ecount = 0 /\ seen = [p \in CPU |-> 0] /\ found = 0
        /\ changed = 0 /\ keys = 0
        /\ B!Init
        /\ pc = [p \in CPU |-> "window"]
-----------------------------------------------------------------------------
Arrive(p) == /\ pc[p] \in Sites
             /\ B!Arrive(p)
             /\ UNCHANGED <<range, ticks, nticks, count, input, pc>>

Release == B!Release /\ UNCHANGED <<range, ticks, nticks, count, input, pc>>

Passes(p, from, to) == B!Leave(p) /\ Goto(p, from, to)

\* Fault: no CPU raises the start of the segment.
DoTestForgets(p) == /\ Goto(p, "window", IF LeadBarrier THEN "lead" ELSE "begin")
                    /\ UNCHANGED <<range, ticks, nticks, count, input, stage>>

\* do_test: the master raises the start of the first segment to 0x500.
DoTest(p) == /\ Goto(p, "window", IF LeadBarrier THEN "lead" ELSE "begin")
             /\ lower' = IF p = mstr_cpu THEN "raised" ELSE lower
             /\ UNCHANGED <<start, ticks, nticks, count, input, stage>>

Lead(p) == /\ Passes(p, "lead", "begin")
           /\ UNCHANGED <<range, ticks, nticks, count, input>>

\* start = v->map[j].start, or calculate_chunk.
Begin(p) == /\ Goto(p, "begin", "tick")
            /\ start' = [start EXCEPT ![p] = lower]
            /\ UNCHANGED <<lower, ticks, nticks, count, input, stage>>
-----------------------------------------------------------------------------
\* do_tick: only the master looks for input before s_barrier().
DoTick(p) == /\ Goto(p, "tick", IF p = mstr_cpu THEN "input" ELSE "held")
             /\ ticks' = [ticks EXCEPT ![p] = @ + 1]
             /\ UNCHANGED <<range, nticks, count, input, stage>>

\* Fault: the master does not wait at the tick.
NoKeyRuns(p) == /\ Goto(p, "input", "bail")
                /\ UNCHANGED <<range, ticks, nticks, count, input, stage>>

NoKey(p) == /\ Goto(p, "input", "held")
            /\ UNCHANGED <<range, ticks, nticks, count, input, stage>>

\* get_config, as far as the test is concerned: bail++.
Configure == /\ keys < MaxKeys
             /\ keys' = keys + 1
             /\ bail' = 1

Key(p) == /\ Configure
          /\ Goto(p, "input", "held")
          /\ changed' = ticks[p]
          /\ UNCHANGED <<range, ticks, nticks, count, stage>>

\* "Only the first selected CPU does the update."
Held(p) == /\ Passes(p, "held", "bail")
           /\ nticks' = IF p = mstr_cpu THEN nticks + 1 ELSE nticks
           /\ UNCHANGED <<range, ticks, count, input>>

\* BAILR.
Bail(p) == /\ Goto(p, "bail", IF bail = 1 THEN "left" ELSE "piece")
           /\ UNCHANGED <<range, ticks, nticks, count, input, stage>>
-----------------------------------------------------------------------------
Next1(p) == IF ticks[p] < Pieces THEN "tick" ELSE "left"

\* A piece without a (further) error.
Piece(p) == /\ Goto(p, "piece", Next1(p))
            /\ UNCHANGED <<range, ticks, nticks, count, input, stage>>

\* error() with an address of the piece.
Error(p) == /\ found < MaxErrors
            /\ \E a \in ErrorsAt : Goto(p, "piece", IF a = "usb" THEN "lock usb" ELSE "lock")
            /\ found' = IF pc'[p] = "lock" THEN found + 1 ELSE found
            /\ UNCHANGED <<range, ticks, nticks, mutex, ecount, seen, input, stage>>

\* Fault: the mutex is not looked at.
LockBlindly(p) == /\ mutex' = p
                  /\ Goto(p, "lock", "load")
                  /\ UNCHANGED <<range, ticks, nticks, ecount, seen, found, input, stage>>

Lock(p) == /\ mutex = Nobody
           /\ mutex' = p
           /\ Goto(p, "lock", "load")
           /\ UNCHANGED <<range, ticks, nticks, ecount, seen, found, input, stage>>

\* USB_WAR: "skip any errors that appear to be due to the BIOS".
LockAndSkip(p) == /\ mutex = Nobody
                  /\ mutex' = p
                  /\ Goto(p, "lock usb", "piece")
                  /\ UNCHANGED <<range, ticks, nticks, ecount, seen, found, input, stage>>

\* common_err: ++(v->ecount), ...
Load(p) == /\ Goto(p, "load", "store")
           /\ seen' = [seen EXCEPT ![p] = ecount]
           /\ UNCHANGED <<range, ticks, nticks, mutex, ecount, found, input, stage>>

Store(p) == /\ Goto(p, "store", IF Addresses THEN "error input" ELSE "unlock")
            /\ ecount' = seen[p] + 1
            /\ UNCHANGED <<range, ticks, nticks, mutex, seen, found, input, stage>>

\* ... and check_input by whichever CPU found the error.
ErrorInput(p) == /\ Goto(p, "error input", "unlock")
                 /\ \/ Configure /\ UNCHANGED changed
                    \/ UNCHANGED input
                 /\ UNCHANGED <<range, ticks, nticks, count, stage>>

\* Fault: the mutex is kept on the normal path as well.
UnlockForgets(p) == /\ Goto(p, "unlock", "piece")
                    /\ UNCHANGED <<range, ticks, nticks, count, input, stage>>

Unlock(p) == /\ Goto(p, "unlock", "piece")
             /\ mutex' = Nobody
             /\ UNCHANGED <<range, ticks, nticks, ecount, seen, found, input, stage>>

\* All CPUs are back in memtest_main.
Over == (\A p \in CPU : pc[p] = "left") /\ UNCHANGED vars

Step(p) == \/ Arrive(p) \/ DoTest(p) \/ Lead(p) \/ Begin(p) \/ DoTick(p) \/ NoKey(p)
           \/ Held(p) \/ Bail(p) \/ Piece(p) \/ Lock(p) \/ LockAndSkip(p) \/ Load(p)
           \/ Store(p) \/ ErrorInput(p) \/ Unlock(p)

Next == Release \/ Over \/ \E p \in CPU : Step(p) \/ Key(p) \/ Error(p)

Spec == Init /\ [][Next]_vars

\* The CPUs keep executing; nobody has to press a key and no error has to occur.
Fairness == WF_vars(Release) /\ \A p \in CPU : WF_vars(Step(p))

FairSpec == Spec /\ Fairness
-----------------------------------------------------------------------------
TypeOK ==
  /\ bail \in {0, 1} /\ changed \in 0 .. Pieces /\ keys \in 0 .. MaxKeys
  /\ lower \in {"bios", "raised"} /\ start \in [CPU -> {"none", "bios", "raised"}]
  /\ ticks \in [CPU -> 0 .. Pieces] /\ nticks \in 0 .. Pieces
  /\ mutex \in CPU \cup {Nobody} /\ found \in 0 .. MaxErrors
  /\ ecount \in 0 .. MaxErrors /\ seen \in [CPU -> 0 .. MaxErrors]
  /\ stage \in [CPU -> {"run", "wait", "go"}]
  /\ pc \in [CPU -> Sites \cup {"window", "begin", "tick", "input", "bail", "piece", "lock",
                     "lock usb", "load", "store", "error input", "unlock", "left"}]

\* No error is lost or counted twice when several CPUs find errors at once
\* (error.c:35-62 with 103).
ErrorsExact ==
  ecount = found - Cardinality({p \in CPU : pc[p] \in {"lock", "load", "store"}})

\* The pieces of the CPUs keep in step: a CPU tests its k-th piece only while no
\* other is more than one tick ahead or behind, whoever bails out.
InStep == \A p, q \in CPU : pc[p] # "left" /\ pc[q] # "left" => ticks[p] - ticks[q] <= 1

\* What the master changed at a tick is seen by all CPUs at that tick: none tests
\* another piece (error.c:465-470).
ChangeSeen ==
  changed > 0 => \A p \in CPU : pc[p] = "piece" => ticks[p] < changed

\* The CPUs go through a test together and stop together at a change.
Lockstep == TypeOK /\ InStep /\ ChangeSeen

\* "Good 'ol Legacy USB_WAR" (main.c:461): no CPU tests memory below 0x500.
LegacyAreaSpared == \A p \in CPU : start[p] # "bios"

\* A test comes to its end whatever errors are reported, unless its configuration
\* is changed or an error is skipped (LeaveTogether and ErrorsReported are what
\* goes wrong then).
TestEnds == <>(\/ \A p \in CPU : pc[p] = "left"
               \/ keys > 0 \/ \E p \in CPU : pc[p] = "lock usb")

\* "A barrier here holds the other CPUs until the configuration changes are done"
\* (error.c:468): a CPU that leaves the test because of a change leaves it at the
\* tick the change was made at, with all the others.
LeaveTogether ==
  \A p \in CPU : pc[p] = "left" /\ ticks[p] < Pieces =>
     \A q \in CPU : ticks[q] <= ticks[p]

\* "Skip any errrors that appear to be due to the BIOS" (error.c:36): an error that
\* is skipped does not keep the next one from being reported.
ErrorsReported == \A p \in CPU : pc[p] = "lock" ~> pc[p] = "piece"
=============================================================================
