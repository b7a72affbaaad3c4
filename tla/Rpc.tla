-------------------------------- MODULE Rpc --------------------------------
(***************************************************************************)
(* What SIMP promises to the application of one chip that issues commands  *)
(* to the other: a remote procedure call, over a link that may lose it.    *)
(*                                                                         *)
(*   - the peer executes a call at most once, and never one that has been  *)
(*     superseded by a later call;                                         *)
(*   - a call is concluded at most once, by the answer of the peer, which  *)
(*     has then executed that very call, or by a timeout;                  *)
(*   - no call is concluded once a later one has been issued.              *)
(*                                                                         *)
(* A call may also never be concluded: the code drops, with no callback, a *)
(* request whose transmission the UART driver aborts.                      *)
(***************************************************************************)
EXTENDS Naturals, Sequences

VARIABLES
  calls,      \* how many calls the application has issued, also the last id
  executed,   \* the ids the peer has executed, oldest first
  concluded   \* the conclusions the application saw: [id, how], oldest first

vars == <<calls, executed, concluded>>

Init ==
  /\ calls = 0
  /\ executed = <<>>
  /\ concluded = <<>>

IsExecuted(id) == \E k \in 1..Len(executed) : executed[k] = id

IsConcluded(id) == \E k \in 1..Len(concluded) : concluded[k].id = id

Call ==
  /\ calls' = calls + 1
  /\ UNCHANGED <<executed, concluded>>

Execute ==
  /\ calls > 0
  /\ ~IsExecuted(calls)
  /\ ~IsConcluded(calls)
  /\ executed' = Append(executed, calls)
  /\ UNCHANGED <<calls, concluded>>

Conclude(how) ==
  /\ calls > 0
  /\ ~IsConcluded(calls)
  /\ concluded' = Append(concluded, [id |-> calls, how |-> how])
  /\ UNCHANGED <<calls, executed>>

Answer == IsExecuted(calls) /\ Conclude("rsp")

GiveUp == Conclude("timeout")

Next == Call \/ Execute \/ Answer \/ GiveUp

Spec == Init /\ [][Next]_vars
=============================================================================
