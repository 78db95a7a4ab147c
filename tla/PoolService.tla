----------------------------- MODULE PoolService -----------------------------
(***************************************************************************)
(* What the CLI, the core and the dhcp process promise together to the     *)
(* operator: a command is one procedure call.  It is carried out at most   *)
(* once, the ranges it depends on are those at that moment, and the answer *)
(* is the outcome of this very call.  It may also stay unanswered.         *)
(***************************************************************************)
EXTENDS Integers, Sequences

CONSTANT Command    \* records with a cmd and the range of a pool

VARIABLES
  call,      \* the command the operator waits on, a sequence of at most one
  pending,   \* whether it has still to be carried out
  outcome,   \* what came of it, a sequence of at most one
  told,      \* the last call answered, with its answer, likewise
  ranges     \* the ranges <<start, end>> of the pools

vars == <<call, pending, outcome, told, ranges>>

Init == /\ call = <<>> /\ outcome = <<>> /\ told = <<>>
        /\ pending = FALSE
        /\ ranges = {}

Issue(c) == /\ call = <<>>
            /\ call' = <<c>>
            /\ pending' = TRUE
            /\ UNCHANGED <<outcome, told, ranges>>

(* A pending call of the given cmd is carried out, or comes to nothing. *)
Perform(cmd) == /\ pending
                /\ call # <<>> /\ call[1].cmd = cmd
                /\ pending' = FALSE
                /\ UNCHANGED <<call, told>>

Outcome(status) == outcome' = <<[cmd |-> call[1].cmd, status |-> status]>>

(* A pool is refused when an end of its range lies in a pool there is. *)
Lies(ip, r) == r[1] <= ip /\ ip <= r[2]

Meets(range) == \E r \in ranges : Lies(range[1], r) \/ Lies(range[2], r)

Create == /\ Perform("dhcp.pool.create")
          /\ ~Meets(call[1].range)
          /\ ranges' = ranges \cup {call[1].range}
          /\ Outcome(TRUE)

Refuse == /\ Perform("dhcp.pool.create")
          /\ Meets(call[1].range)
          /\ UNCHANGED ranges
          /\ Outcome(FALSE)

List == /\ Perform("dhcp.pool.list")
        /\ UNCHANGED ranges
        /\ Outcome(FALSE)

Lose == /\ Perform("ip.address")
        /\ UNCHANGED <<outcome, ranges>>

Answer == /\ outcome # <<>>
          /\ told' = <<[request |-> call[1], answer |-> outcome[1]]>>
          /\ outcome' = <<>>
          /\ call' = <<>>
          /\ UNCHANGED <<pending, ranges>>

Next == \/ \E c \in Command : Issue(c)
        \/ Create
        \/ Refuse
        \/ List
        \/ Lose
        \/ Answer

Spec == Init /\ [][Next]_vars

=============================================================================
