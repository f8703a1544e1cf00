------------------------------- MODULE Hulk -------------------------------
(***************************************************************************)
(* The HULK load generator, src/hulk.py: a pool of HTTPThread workers     *)
(* (lines 83-91) running httpcall (lines 56-81) in a loop, and one        *)
(* MonitorThread (lines 93-102), sharing the module globals               *)
(* request_counter, flag and safe.                                        *)
(*                                                                         *)
(* A request is abstracted to its outcome at urlopen: a response, an      *)
(* HTTPError (any status >= 400, reported as 500) or a URLError.  The URL, *)
(* the headers and the random blocks are left out: no control flow reads   *)
(* them.  request_counter += 1 (line 19) is a read and a write of a        *)
(* global, two steps between which the interpreter may switch threads.    *)
(***************************************************************************)
EXTENDS Naturals, FiniteSets

CONSTANTS
    Workers,   \* the HTTPThread objects started at lines 121-123
    MaxReq     \* bound on the requests answered, to keep the model finite

ASSUME WorkersAssumption == IsFiniteSet(Workers)
ASSUME MaxReqAssumption == MaxReq \in Nat

VARIABLES
    counter,   \* request_counter
    flag,      \* flag: 0 running, 1 an error was seen, 2 stop
    safe,      \* safe: 1 when "safe" was given on the command line
    pc,        \* where each worker is
    tmp,       \* the value of request_counter a worker read at line 19
    acks,      \* history: first urlopen calls that returned a response
    mpc,       \* where the monitor is: "watch" or "done"
    announced  \* the monitor printed "-- HULK Attack Finished --"

vars == <<counter, flag, safe, pc, tmp, acks, mpc, announced>>

PCs == {"check", "send", "inc_read", "inc_write", "resend", "stop", "exit"}

(* Lines 114-115: safe comes from argv; every other global is at its       *)
(* initial value when the threads start.                                  *)
Init ==
    /\ counter = 0
    /\ flag = 0
    /\ safe \in {0, 1}
    /\ pc = [w \in Workers |-> "check"]
    /\ tmp = [w \in Workers |-> 0]
    /\ acks = 0
    /\ mpc = "watch"
    /\ announced = FALSE

(* while flag < 2 (line 86).                                               *)
Check(w) ==
    /\ pc[w] = "check"
    /\ pc' = [pc EXCEPT ![w] = IF flag < 2 THEN "send" ELSE "exit"]
    /\ UNCHANGED <<counter, flag, safe, tmp, acks, mpc, announced>>

(* The first urlopen returns (line 71): the else branch calls inc_counter. *)
SendOk(w) ==
    /\ pc[w] = "send"
    /\ acks < MaxReq
    /\ acks' = acks + 1
    /\ pc' = [pc EXCEPT ![w] = "inc_read"]
    /\ UNCHANGED <<counter, flag, safe, tmp, mpc, announced>>

(* Mutant: the HTTPError handler forgets code = 500, so line 88 never      *)
(* fires.                                                                  *)
SendErrorNoCode(w) ==
    /\ pc[w] = "send"
    /\ flag' = 1
    /\ pc' = [pc EXCEPT ![w] = "check"]
    /\ UNCHANGED <<counter, safe, tmp, acks, mpc, announced>>

(* Mutant: set_flag increments the flag instead of storing the value.      *)
SendErrorIncrements(w) ==
    /\ pc[w] = "send"
    /\ flag' = flag + 1
    /\ pc' = [pc EXCEPT ![w] = IF safe = 1 THEN "stop" ELSE "check"]
    /\ UNCHANGED <<counter, safe, tmp, acks, mpc, announced>>

(***************************************************************************)
(* HTTPError (lines 72-75): set_flag(1), code = 500; httpcall returns and *)
(* line 88 sends the worker to set_flag(2) in safe mode, else it loops.   *)
(***************************************************************************)
SendError(w) ==
    /\ pc[w] = "send"
    /\ flag' = 1
    /\ pc' = [pc EXCEPT ![w] = IF safe = 1 THEN "stop" ELSE "check"]
    /\ UNCHANGED <<counter, safe, tmp, acks, mpc, announced>>

(* URLError (lines 76-77): sys.exit() raises SystemExit, which the         *)
(* except Exception of line 90 does not catch; the thread ends.            *)
SendUnreachable(w) ==
    /\ pc[w] = "send"
    /\ pc' = [pc EXCEPT ![w] = "exit"]
    /\ UNCHANGED <<counter, flag, safe, tmp, acks, mpc, announced>>

(* Mutant: inc_counter is also called when the request failed.            *)
IncReadOnError(w) ==
    /\ pc[w] \in {"inc_read", "stop"}
    /\ tmp' = [tmp EXCEPT ![w] = counter]
    /\ pc' = [pc EXCEPT ![w] = "inc_write"]
    /\ UNCHANGED <<counter, flag, safe, acks, mpc, announced>>

(* request_counter += 1 (line 19): the read of the global ...               *)
IncRead(w) ==
    /\ pc[w] = "inc_read"
    /\ tmp' = [tmp EXCEPT ![w] = counter]
    /\ pc' = [pc EXCEPT ![w] = "inc_write"]
    /\ UNCHANGED <<counter, flag, safe, acks, mpc, announced>>

(* ... and the write back.                                                  *)
IncWrite(w) ==
    /\ pc[w] = "inc_write"
    /\ counter' = tmp[w] + 1
    /\ pc' = [pc EXCEPT ![w] = "resend"]
    /\ UNCHANGED <<flag, safe, tmp, acks, mpc, announced>>

(* The second urlopen (line 80) is outside the try: if it raises, the      *)
(* exception leaves httpcall and the except of line 90 ends the thread.    *)
Resend(w) ==
    /\ pc[w] = "resend"
    /\ \E next \in {"check", "exit"} : pc' = [pc EXCEPT ![w] = next]
    /\ UNCHANGED <<counter, flag, safe, tmp, acks, mpc, announced>>

(* set_flag(2) (line 89).                                                   *)
Stop(w) ==
    /\ pc[w] = "stop"
    /\ flag' = 2
    /\ pc' = [pc EXCEPT ![w] = "check"]
    /\ UNCHANGED <<counter, safe, tmp, acks, mpc, announced>>

Worker(w) ==
    \/ Check(w) \/ SendOk(w) \/ SendError(w) \/ SendUnreachable(w)
    \/ IncRead(w) \/ IncWrite(w) \/ Resend(w) \/ Stop(w)

(***************************************************************************)
(* The monitor leaves while flag == 0 (line 97) at the first check that   *)
(* sees a non-zero flag, and prints the final message only if that flag   *)
(* is 2 (lines 101-102).  Its progress printing reads request_counter and *)
(* changes no shared state; it is left out.                               *)
(***************************************************************************)
MonitorExit ==
    /\ mpc = "watch"
    /\ flag # 0
    /\ mpc' = "done"
    /\ announced' = (flag = 2)
    /\ UNCHANGED <<counter, flag, safe, pc, tmp, acks>>

Next == (\E w \in Workers : Worker(w)) \/ MonitorExit

Spec == Init /\ [][Next]_vars

(***************************************************************************)
(* The workers and the monitor are threads the interpreter keeps          *)
(* scheduling: one that can take a step eventually does.                  *)
(***************************************************************************)
FairSpec == Spec /\ (\A w \in Workers : WF_vars(Worker(w))) /\ WF_vars(MonitorExit)

-----------------------------------------------------------------------------
(* Every global and every thread state stays within its range.             *)
TypeOK ==
    /\ counter \in 0..MaxReq
    /\ flag \in {0, 1, 2}
    /\ safe \in {0, 1}
    /\ pc \in [Workers -> PCs]
    /\ tmp \in [Workers -> 0..MaxReq]
    /\ acks \in 0..MaxReq
    /\ mpc \in {"watch", "done"}
    /\ announced \in BOOLEAN

(***************************************************************************)
(* inc_counter is reached only after a response: whatever the threads'    *)
(* interleaving, request_counter never claims more answered requests than *)
(* there were.                                                             *)
(***************************************************************************)
CounterNeverAhead == counter <= acks

(***************************************************************************)
(* The usage text (line 53): in safe mode the attack stops after an HTTP  *)
(* 500.  Once a worker has met an error in safe mode, the stop flag is    *)
(* eventually raised.                                                      *)
(***************************************************************************)
SafeStopReached == (safe = 1 /\ flag # 0) ~> (flag = 2)

(***************************************************************************)
(* The monitor's "Requests Sent" line: request_counter counts the answered *)
(* requests, up to the increments under way.                               *)
(***************************************************************************)
CounterCountsRequests ==
    counter + Cardinality({w \in Workers : pc[w] \in {"inc_read", "inc_write"}}) = acks

(***************************************************************************)
(* "stop after HTTP 500 response" (line 53): once the stop flag is raised *)
(* no worker lowers it again.                                              *)
(***************************************************************************)
StopIsFinal == [][flag = 2 => flag' = 2]_vars

(***************************************************************************)
(* Lines 101-102: when the attack stops in safe mode, the monitor prints  *)
(* "-- HULK Attack Finished --".                                           *)
(***************************************************************************)
StopAnnounced == (safe = 1 /\ flag = 2) ~> announced

=============================================================================
