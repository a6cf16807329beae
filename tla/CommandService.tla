-------------------------- MODULE CommandService --------------------------
(***************************************************************************)
(* What the daemon promises a task that sends it a DaemonCommand, with the *)
(* channel, the mesh task and the clocks left out: requests of one task    *)
(* are answered one at a time, take effect in the order they were made, at *)
(* most once, and an answer other than "timeout" or "sent" is the outcome  *)
(* of the effect.                                                          *)
(***************************************************************************)
EXTENDS Naturals

CONSTANTS Requesters,   \* the tasks that hold a clone of AppState.command_tx
          MaxRequests   \* how many requests each of them makes

VARIABLES issued,       \* issued[r]: requests r has made
          effect,       \* effect[r][n]: outcome of the n-th request of r, or "none"
          told          \* told[r][n]: what r was told about it, or "none"

vars == <<issued, effect, told>>

Outcome == {"ok", "err"}

Init ==
  /\ issued = [r \in Requesters |-> 0]
  /\ effect = [r \in Requesters |-> [n \in 1..MaxRequests |-> "none"]]
  /\ told   = [r \in Requesters |-> [n \in 1..MaxRequests |-> "none"]]

\* A task makes its next request once it has been told about the last one.
Ask(r) ==
  /\ issued[r] < MaxRequests
  /\ issued[r] > 0 => told[r][issued[r]] # "none"
  /\ issued' = [issued EXCEPT ![r] = @ + 1]
  /\ UNCHANGED <<effect, told>>

\* A request takes effect once, after every earlier one of its task.
Perform(r, n) ==
  /\ n <= issued[r]
  /\ effect[r][n] = "none"
  /\ \A m \in 1..(n - 1) : effect[r][m] # "none"
  /\ \E res \in Outcome : effect' = [effect EXCEPT ![r][n] = res]
  /\ UNCHANGED <<issued, told>>

\* The answer is the outcome of the effect.
Answer(r, n) ==
  /\ n = issued[r]
  /\ told[r][n] = "none"
  /\ effect[r][n] # "none"
  /\ told' = [told EXCEPT ![r][n] = effect[r][n]]
  /\ UNCHANGED <<issued, effect>>

\* The task stops waiting: the request may or may not have taken effect, and
\* may still take effect later.
LetGo(r, n) ==
  /\ n = issued[r]
  /\ told[r][n] = "none"
  /\ \E why \in {"timeout", "sent"} : told' = [told EXCEPT ![r][n] = why]
  /\ UNCHANGED <<issued, effect>>

Next ==
  \E r \in Requesters :
    \/ Ask(r)
    \/ \E n \in 1..MaxRequests : Perform(r, n) \/ Answer(r, n) \/ LetGo(r, n)

Spec == Init /\ [][Next]_vars
=============================================================================
