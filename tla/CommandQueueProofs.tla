------------------------ MODULE CommandQueueProofs ------------------------
(***************************************************************************)
(* Proofs about CommandQueue, for any number of tasks, any capacity and    *)
(* any number of requests: type correctness, the safety invariants the     *)
(* runs check, and that the channel implements CommandService.             *)
(***************************************************************************)
EXTENDS CommandQueue, TLAPS

-----------------------------------------------------------------------------
(* The inductive invariant.                                                *)

\* An accepted command was issued, has not taken effect, and is not the one
\* its task is still trying to send.
Accepted(c) ==
  /\ c.seq <= issued[c.from]
  /\ effect[c.from][c.seq] = "none"
  /\ c.seq = issued[c.from] => phase[c.from] # "sending"

QueueSound == \A i \in 1..Len(queue) : Accepted(queue[i])

QueueOrdered ==
  \A i, j \in 1..Len(queue) :
    i < j /\ queue[i].from = queue[j].from => queue[i].seq < queue[j].seq

RunningSound ==
  running # NoCommand =>
    /\ Accepted(running)
    /\ \A i \in 1..Len(queue) :
         queue[i].from = running.from => running.seq < queue[i].seq

\* A reply waits only for a task that waits, and is the outcome of its request.
ReplySound ==
  \A r \in Requesters : reply[r] # "none" =>
    phase[r] = "waiting" /\ effect[r][issued[r]] = reply[r]

\* A task is busy exactly while its last request is unanswered.
PhaseSound ==
  \A r \in Requesters :
    /\ phase[r] # "idle" => issued[r] > 0 /\ told[r][issued[r]] = "none"
    /\ phase[r] = "idle" /\ issued[r] > 0 => told[r][issued[r]] # "none"
    /\ phase[r] = "sending" => effect[r][issued[r]] = "none"

Unissued ==
  \A r \in Requesters : \A n \in 1..MaxRequests :
    n > issued[r] => effect[r][n] = "none" /\ told[r][n] = "none"

Somewhere(r, n) ==
  \/ n = issued[r] /\ phase[r] = "sending"
  \/ \E i \in 1..Len(queue) : queue[i].from = r /\ queue[i].seq = n
  \/ running # NoCommand /\ running.from = r /\ running.seq = n

Kept ==
  \A r \in Requesters : \A n \in 1..MaxRequests :
    n <= issued[r] /\ effect[r][n] = "none" => Somewhere(r, n)

IInv ==
  /\ TypeOK
  /\ QueueSound /\ QueueOrdered /\ RunningSound
  /\ ReplySound /\ PhaseSound /\ Unissued /\ Kept
  /\ InOrder /\ Truthful

-----------------------------------------------------------------------------
(* Facts about the queue.                                                  *)

\* What Append does to the commands already queued.
LEMMA AppendFacts ==
  ASSUME NEW S, NEW s \in Seq(S), NEW e \in S
  PROVE  /\ Append(s, e) \in Seq(S)
         /\ Len(Append(s, e)) = Len(s) + 1
         /\ \A i \in 1..Len(s) : Append(s, e)[i] = s[i]
         /\ Append(s, e)[Len(s) + 1] = e
  OBVIOUS

\* What taking the oldest command leaves.
LEMMA TailFacts ==
  ASSUME NEW S, NEW s \in Seq(S), s # <<>>
  PROVE  /\ Tail(s) \in Seq(S)
         /\ Len(s) \in Nat /\ Len(s) > 0
         /\ Len(Tail(s)) = Len(s) - 1
         /\ \A i \in 1..Len(Tail(s)) : i + 1 \in 1..Len(s) /\ Tail(s)[i] = s[i + 1]
         /\ Head(s) = s[1]
         /\ Head(s) \in S
         /\ 1 \in 1..Len(s)
  OBVIOUS

\* Every task asks for one of its kinds, and every kind is a DaemonCommand.
LEMMA KindsFacts ==
  ASSUME NEW r \in Requesters
  PROVE  KindsOf(r) # {} /\ KindsOf(r) \subseteq Kind
  BY DEF KindsOf, Kind

\* A command is never mistaken for the absence of one.
LEMMA CommandFacts ==
  ASSUME NEW c \in Command
  PROVE  /\ c # NoCommand
         /\ c.from \in Requesters /\ c.seq \in 1..MaxRequests /\ c.kind \in Kind
  BY QueueAssumption DEF Command, Kind

\* Outcomes reported by handle_command.
LEMMA ResultsFacts ==
  ASSUME NEW k
  PROVE  Results(k) \subseteq {"ok", "err"}
  BY DEF Results

-----------------------------------------------------------------------------
(* Type correctness.                                                       *)

\* The command a task is sending is a command.
LEMMA CurrentFacts ==
  ASSUME TypeOK, NEW r \in Requesters, issued[r] > 0
  PROVE  /\ Current(r) \in Command
         /\ Current(r).from = r /\ Current(r).seq = issued[r]
         /\ Current(r) # NoCommand
  <1>1. issued[r] \in 1..MaxRequests /\ asking[r] \in Kind
    BY QueueAssumption DEF TypeOK
  <1> QED  BY <1>1, CommandFacts DEF Current, Command

\* Every action keeps the types.
LEMMA TypeStep ==
  ASSUME TypeOK, PhaseSound, [Next]_vars
  PROVE  TypeOK'
  <1> USE QueueAssumption
  <1>1. ASSUME NEW r \in Requesters, Submit(r)
        PROVE  TypeOK'
    BY <1>1, KindsFacts DEF Submit, TypeOK
  <1>2. ASSUME NEW r \in Requesters, Enqueue(r)
        PROVE  TypeOK'
    <2>1. issued[r] > 0 /\ issued[r] \in 1..MaxRequests
      BY <1>2 DEF Enqueue, PhaseSound, TypeOK
    <2>2. Current(r) \in Command
      BY <2>1, CurrentFacts
    <2>3. queue' \in Seq(Command) /\ Len(queue') <= Capacity
      BY <1>2, <2>2, AppendFacts DEF Enqueue, TypeOK
    <2>4. told' \in [Requesters -> [1..MaxRequests -> {"none", "ok", "err", "timeout", "sent"}]]
      BY <1>2, <2>1 DEF Enqueue, TypeOK
    <2> QED  BY <1>2, <2>3, <2>4 DEF Enqueue, TypeOK
  <1>3. ASSUME NEW r \in Requesters, Deliver(r)
        PROVE  TypeOK'
    <2>1. issued[r] \in 1..MaxRequests /\ reply[r] \in {"none", "ok", "err"}
      BY <1>3 DEF Deliver, PhaseSound, TypeOK
    <2> QED  BY <1>3, <2>1 DEF Deliver, TypeOK
  <1>4. ASSUME NEW r \in Requesters, TimeOut(r)
        PROVE  TypeOK'
    <2>0. phase[r] # "idle"
      BY <1>4 DEF TimeOut
    <2>1. issued[r] \in 1..MaxRequests
      BY <2>0 DEF PhaseSound, TypeOK
    <2> QED  BY <1>4, <2>1 DEF TimeOut, TypeOK
  <1>5. CASE Connect
    BY <1>5 DEF Connect, TypeOK
  <1>6. CASE LoseLink
    BY <1>6 DEF LoseLink, TypeOK
  <1>7. CASE TakeCommand
    BY <1>7, TailFacts DEF TakeCommand, TypeOK
  <1>8. CASE FinishCommand
    <2>1. running \in Command
      BY <1>8 DEF FinishCommand, TypeOK
    <2>2. PICK res \in Results(running.kind) :
            /\ effect' = [effect EXCEPT ![running.from][running.seq] = res]
            /\ reply' = IF phase[running.from] = "waiting" /\ running.seq = issued[running.from]
                        THEN [reply EXCEPT ![running.from] = res] ELSE reply
      BY <1>8 DEF FinishCommand
    <2>3. res \in {"ok", "err"}
      BY ResultsFacts
    <2> QED  BY <1>8, <2>1, <2>2, <2>3, CommandFacts DEF FinishCommand, TypeOK
  <1>9. CASE UNCHANGED vars
    BY <1>9 DEF vars, TypeOK
  <1> QED  BY <1>1, <1>2, <1>3, <1>4, <1>5, <1>6, <1>7, <1>8, <1>9 DEF Next, MeshStep, TaskStep

-----------------------------------------------------------------------------
(* One lemma per action: it preserves the inductive invariant.             *)

\* A new request has no history yet, and its task is the only one disturbed.
LEMMA SubmitStep ==
  ASSUME IInv, TypeOK', NEW r \in Requesters, Submit(r)
  PROVE  IInv'
  <1> USE QueueAssumption DEF IInv
  <1>1. /\ phase[r] = "idle" /\ issued[r] \in Nat /\ issued[r] < MaxRequests
        /\ issued' = [issued EXCEPT ![r] = @ + 1]
        /\ phase' = [phase EXCEPT ![r] = "sending"]
        /\ UNCHANGED <<queue, mesh, running, reply, effect, told>>
    BY DEF Submit, TypeOK
  <1>2. ASSUME NEW q \in Requesters
        PROVE  /\ q # r => issued'[q] = issued[q] /\ phase'[q] = phase[q]
               /\ issued'[r] = issued[r] + 1 /\ phase'[r] = "sending"
               /\ issued[q] \in Nat
    BY <1>1 DEF TypeOK
  <1>3. ASSUME NEW c \in Command, Accepted(c)
        PROVE  Accepted(c)'
    <2>1. c.from \in Requesters /\ c.seq \in Nat
      BY CommandFacts
    <2> QED  BY <1>1, <1>2, <1>3, <2>1 DEF Accepted
  <1>4. QueueSound'
    BY <1>1, <1>3 DEF QueueSound, TypeOK
  <1>5. QueueOrdered'
    BY <1>1 DEF QueueOrdered
  <1>6. RunningSound'
    BY <1>1, <1>3 DEF RunningSound, TypeOK
  <1>7. ReplySound'
    BY <1>1, <1>2 DEF ReplySound
  <1>8. PhaseSound'
    <2>1. issued[r] + 1 \in 1..MaxRequests /\ issued[r] + 1 > issued[r]
      BY <1>1
    <2>2. effect[r][issued[r] + 1] = "none" /\ told[r][issued[r] + 1] = "none"
      BY <2>1 DEF Unissued
    <2> QED  BY <1>1, <1>2, <2>1, <2>2 DEF PhaseSound
  <1>9. Unissued'
    BY <1>1, <1>2 DEF Unissued
  <1>10. Kept'
    <2> SUFFICES ASSUME NEW q \in Requesters, NEW n \in 1..MaxRequests,
                        n <= issued'[q], effect[q][n] = "none"
                 PROVE  Somewhere(q, n)'
      BY <1>1 DEF Kept
    <2>1. CASE q = r /\ n = issued[r] + 1
      BY <2>1, <1>2 DEF Somewhere
    <2>2. CASE ~(q = r /\ n = issued[r] + 1)
      <3>1. n <= issued[q]
        BY <2>2, <1>2
      <3>2. Somewhere(q, n)
        BY <3>1 DEF Kept
      <3>3. ~(n = issued[q] /\ phase[q] = "sending" /\ q = r)
        BY <1>1
      <3> QED  BY <3>2, <3>3, <1>1, <1>2 DEF Somewhere
    <2> QED  BY <2>1, <2>2
  <1>11. InOrder' /\ Truthful'
    BY <1>1 DEF InOrder, Truthful
  <1> QED  BY <1>4, <1>5, <1>6, <1>7, <1>8, <1>9, <1>10, <1>11

\* The request joins the end of the queue, after every older one of its task.
LEMMA EnqueueStep ==
  ASSUME IInv, TypeOK', NEW r \in Requesters, Enqueue(r)
  PROVE  IInv'
  <1> USE QueueAssumption DEF IInv
  <1>1. /\ phase[r] = "sending" /\ issued[r] > 0 /\ issued[r] \in 1..MaxRequests
        /\ told[r][issued[r]] = "none" /\ effect[r][issued[r]] = "none"
    BY DEF Enqueue, PhaseSound, TypeOK
  <1>2. PICK c \in Command :
          c = Current(r) /\ c.from = r /\ c.seq = issued[r] /\ c # NoCommand
    BY <1>1, CurrentFacts
  <1>3. /\ Len(queue') = Len(queue) + 1
        /\ \A i \in 1..Len(queue) : queue'[i] = queue[i] /\ queue[i] \in Command
        /\ queue'[Len(queue) + 1] = c
        /\ Len(queue) \in Nat
    BY <1>2, AppendFacts DEF Enqueue, TypeOK
  <1>4. /\ phase'[r] \in {"idle", "waiting"}
        /\ \A q \in Requesters : q # r => phase'[q] = phase[q] /\ told'[q] = told[q]
        /\ asking[r] = "resync" => phase'[r] = "idle" /\ told'[r][issued[r]] = "sent"
        /\ asking[r] # "resync" => phase'[r] = "waiting" /\ told'[r][issued[r]] = "none"
        /\ \A n \in 1..MaxRequests : n # issued[r] => told'[r][n] = told[r][n]
        /\ UNCHANGED <<mesh, running, asking, reply, issued, effect>>
    BY <1>1 DEF Enqueue, TypeOK
  <1>5. ASSUME NEW d \in Command, Accepted(d)
        PROVE  /\ Accepted(d)'
               /\ d.from = r => d.seq < issued[r]
    <2>1. d.from \in Requesters /\ d.seq \in Nat /\ issued[r] \in Nat
      BY <1>1, CommandFacts
    <2> QED  BY <1>1, <1>4, <1>5, <2>1 DEF Accepted
  <1>6. Accepted(c)'
    BY <1>1, <1>2, <1>4 DEF Accepted
  <1>7. QueueSound'
    <2>1. \A i \in 1..Len(queue') : \E d \in Command : queue'[i] = d /\ Accepted(d)'
      BY <1>3, <1>5, <1>6 DEF QueueSound
    <2> QED  BY <2>1 DEF QueueSound, Accepted
  <1>8. QueueOrdered'
    BY <1>2, <1>3, <1>5 DEF QueueOrdered, QueueSound
  <1>9. RunningSound'
    <2> SUFFICES ASSUME running # NoCommand
                 PROVE  /\ Accepted(running)'
                        /\ \A i \in 1..Len(queue') :
                             queue'[i].from = running.from => running.seq < queue'[i].seq
      BY <1>4 DEF RunningSound, Accepted
    <2>1. PICK d \in Command : d = running
      BY DEF TypeOK
    <2>2. Accepted(d)' /\ (d.from = r => d.seq < issued[r])
      BY <2>1, <1>5 DEF RunningSound
    <2>3. Accepted(running)'
      BY <2>1, <2>2, <1>4 DEF Accepted
    <2>4. ASSUME NEW i \in 1..Len(queue'), queue'[i].from = running.from
          PROVE  running.seq < queue'[i].seq
      <3>1. CASE i \in 1..Len(queue)
        BY <3>1, <2>4, <1>3 DEF RunningSound
      <3>2. CASE i = Len(queue) + 1
        BY <3>2, <2>1, <2>2, <2>4, <1>2, <1>3
      <3> QED  BY <3>1, <3>2, <1>3
    <2> QED  BY <2>3, <2>4
  <1>10. ReplySound'
    BY <1>1, <1>4 DEF ReplySound
  <1>11. PhaseSound'
    BY <1>1, <1>4 DEF PhaseSound
  <1>12. Unissued'
    <2> SUFFICES ASSUME NEW q \in Requesters, NEW n \in 1..MaxRequests, n > issued[q]
                 PROVE  effect[q][n] = "none" /\ told'[q][n] = "none"
      BY <1>4 DEF Unissued
    <2>1. effect[q][n] = "none" /\ told[q][n] = "none"
      BY DEF Unissued
    <2> QED  BY <2>1, <1>1, <1>4
  <1>13. Kept'
    <2> SUFFICES ASSUME NEW q \in Requesters, NEW n \in 1..MaxRequests,
                        n <= issued[q], effect[q][n] = "none"
                 PROVE  Somewhere(q, n)'
      BY <1>4 DEF Kept
    <2>1. CASE q = r /\ n = issued[r]
      BY <2>1, <1>2, <1>3 DEF Somewhere
    <2>2. CASE ~(q = r /\ n = issued[r])
      <3>1. Somewhere(q, n)
        BY DEF Kept
      <3> QED  BY <2>2, <3>1, <1>3, <1>4 DEF Somewhere
    <2> QED  BY <2>1, <2>2
  <1>14. InOrder'
    BY <1>4 DEF InOrder
  <1>15. Truthful'
    BY <1>1, <1>4 DEF Truthful
  <1> QED  BY <1>7, <1>8, <1>9, <1>10, <1>11, <1>12, <1>13, <1>14, <1>15

\* A task is told something about its last request and becomes idle: what is
\* queued or executed is untouched.
LEMMA AnswerStep ==
  ASSUME IInv, TypeOK', NEW r \in Requesters, Deliver(r) \/ TimeOut(r)
  PROVE  IInv'
  <1> USE QueueAssumption DEF IInv
  <1>1. /\ phase[r] = "waiting" /\ issued[r] \in 1..MaxRequests
        /\ told[r][issued[r]] = "none"
    <2>1. phase[r] = "waiting"
      BY DEF Deliver, TimeOut
    <2> QED  BY <2>1 DEF PhaseSound, TypeOK
  <1>2. PICK t \in {"ok", "err", "timeout"} :
          /\ told' = [told EXCEPT ![r][issued[r]] = t]
          /\ t # "timeout" => t = effect[r][issued[r]]
    BY DEF Deliver, TimeOut, TypeOK, ReplySound
  <1>3. /\ phase' = [phase EXCEPT ![r] = "idle"]
        /\ reply' = [reply EXCEPT ![r] = "none"]
        /\ UNCHANGED <<queue, mesh, running, asking, issued, effect>>
    <2>1. CASE Deliver(r)
      BY <2>1 DEF Deliver
    <2>2. CASE TimeOut(r)
      BY <2>2 DEF TimeOut, TypeOK
    <2> QED  BY <2>1, <2>2
  <1>4. /\ phase'[r] = "idle" /\ reply'[r] = "none" /\ told'[r][issued[r]] = t
        /\ \A q \in Requesters :
             q # r => phase'[q] = phase[q] /\ reply'[q] = reply[q] /\ told'[q] = told[q]
        /\ \A n \in 1..MaxRequests : n # issued[r] => told'[r][n] = told[r][n]
    BY <1>1, <1>2, <1>3 DEF TypeOK
  <1>5. ASSUME NEW c \in Command, Accepted(c)
        PROVE  Accepted(c)'
    BY <1>3, <1>4, <1>5, CommandFacts DEF Accepted
  <1>6. QueueSound'
    BY <1>3, <1>5 DEF QueueSound, TypeOK
  <1>7. QueueOrdered' /\ InOrder'
    BY <1>3 DEF QueueOrdered, InOrder
  <1>8. RunningSound'
    BY <1>3, <1>5 DEF RunningSound, TypeOK
  <1>9. ReplySound'
    BY <1>3, <1>4 DEF ReplySound
  <1>10. PhaseSound'
    BY <1>1, <1>3, <1>4 DEF PhaseSound
  <1>11. Unissued'
    <2> SUFFICES ASSUME NEW q \in Requesters, NEW n \in 1..MaxRequests, n > issued[q]
                 PROVE  effect[q][n] = "none" /\ told'[q][n] = "none"
      BY <1>3 DEF Unissued
    <2>1. effect[q][n] = "none" /\ told[q][n] = "none"
      BY DEF Unissued
    <2> QED  BY <2>1, <1>1, <1>4
  <1>12. Kept'
    <2> SUFFICES ASSUME NEW q \in Requesters, NEW n \in 1..MaxRequests,
                        n <= issued[q], effect[q][n] = "none"
                 PROVE  Somewhere(q, n)'
      BY <1>3 DEF Kept
    <2>1. Somewhere(q, n)
      BY DEF Kept
    <2> QED  BY <2>1, <1>1, <1>3, <1>4 DEF Somewhere
  <1>13. Truthful'
    <2> SUFFICES ASSUME NEW q \in Requesters, NEW n \in 1..MaxRequests,
                        told'[q][n] \in {"ok", "err"}
                 PROVE  told'[q][n] = effect[q][n]
      BY <1>3 DEF Truthful
    <2>1. CASE q = r /\ n = issued[r]
      BY <2>1, <1>2, <1>4
    <2>2. CASE ~(q = r /\ n = issued[r])
      BY <2>2, <1>4 DEF Truthful
    <2> QED  BY <2>1, <2>2
  <1> QED  BY <1>6, <1>7, <1>8, <1>9, <1>10, <1>11, <1>12, <1>13

\* Connecting and disconnecting touch nothing but the mesh task's own state:
\* queued commands survive.
LEMMA LinkStep ==
  ASSUME IInv, TypeOK', UNCHANGED <<queue, running, taskVars, history>>
  PROVE  IInv'
  BY DEF IInv, taskVars, history, QueueSound, QueueOrdered, RunningSound, Accepted,
         ReplySound, PhaseSound, Unissued, Kept, Somewhere, InOrder, Truthful

\* The oldest command moves from the queue to the mesh task's hands.
LEMMA TakeStep ==
  ASSUME IInv, TypeOK', TakeCommand
  PROVE  IInv'
  <1> USE QueueAssumption DEF IInv
  <1>1. /\ running = NoCommand /\ queue # <<>>
        /\ UNCHANGED <<phase, asking, reply, issued, effect, told>>
    BY DEF TakeCommand
  <1>2. /\ Len(queue) \in Nat /\ Len(queue') = Len(queue) - 1
        /\ \A i \in 1..Len(queue') : i + 1 \in 1..Len(queue) /\ queue'[i] = queue[i + 1]
        /\ running' = queue[1] /\ 1 \in 1..Len(queue)
    BY TailFacts DEF TakeCommand, TypeOK
  <1>3. ASSUME NEW i \in 1..Len(queue)
        PROVE  queue[i] \in Command
    BY DEF TypeOK
  <1>4. running' \in Command /\ running' # NoCommand
    BY <1>2, <1>3, CommandFacts
  <1>5. QueueSound'
    BY <1>1, <1>2 DEF QueueSound, Accepted
  <1>6. QueueOrdered'
    BY <1>2, SMTT(30) DEF QueueOrdered
  <1>7. RunningSound'
    <2>1. Accepted(queue[1])
      BY <1>2 DEF QueueSound
    <2>2. Accepted(running)'
      BY <2>1, <1>1, <1>2 DEF Accepted
    <2>3. ASSUME NEW i \in 1..Len(queue'), queue'[i].from = running'.from
          PROVE  running'.seq < queue'[i].seq
      BY <2>3, <1>2 DEF QueueOrdered
    <2> QED  BY <2>2, <2>3 DEF RunningSound
  <1>8. ReplySound' /\ PhaseSound' /\ Unissued' /\ InOrder' /\ Truthful'
    BY <1>1 DEF ReplySound, PhaseSound, Unissued, InOrder, Truthful
  <1>9. Kept'
    <2> SUFFICES ASSUME NEW q \in Requesters, NEW n \in 1..MaxRequests,
                        n <= issued[q], effect[q][n] = "none"
                 PROVE  Somewhere(q, n)'
      BY <1>1 DEF Kept
    <2>1. Somewhere(q, n)
      BY DEF Kept
    <2>2. CASE \E i \in 1..Len(queue) : queue[i].from = q /\ queue[i].seq = n
      <3>1. PICK i \in 1..Len(queue) : queue[i].from = q /\ queue[i].seq = n
        BY <2>2
      <3>2. CASE i = 1
        BY <3>1, <3>2, <1>2, <1>4 DEF Somewhere
      <3>3. CASE i # 1
        <4>1. i - 1 \in 1..Len(queue') /\ queue'[i - 1] = queue[i]
          BY <3>3, <1>2
        <4> QED  BY <4>1, <3>1 DEF Somewhere
      <3> QED  BY <3>2, <3>3
    <2>3. CASE n = issued[q] /\ phase[q] = "sending"
      BY <2>3, <1>1 DEF Somewhere
    <2> QED  BY <2>1, <2>2, <2>3, <1>1 DEF Somewhere
  <1> QED  BY <1>5, <1>6, <1>7, <1>8, <1>9

\* The executed command takes effect; its reply reaches its task only if the
\* task still waits for that request.
LEMMA FinishStep ==
  ASSUME IInv, TypeOK', FinishCommand
  PROVE  IInv'
  <1> USE QueueAssumption DEF IInv
  <1>1. PICK c \in Command : c = running /\ Accepted(c) /\ c # NoCommand
    BY DEF FinishCommand, TypeOK, RunningSound
  <1> DEFINE r == c.from
             k == c.seq
  <1>2. r \in Requesters /\ k \in 1..MaxRequests /\ k <= issued[r] /\ issued[r] \in Nat
        /\ effect[r][k] = "none"
    BY <1>1, CommandFacts DEF Accepted, TypeOK
  <1>3. PICK res \in {"ok", "err"} :
          /\ effect' = [effect EXCEPT ![r][k] = res]
          /\ reply' = IF phase[r] = "waiting" /\ k = issued[r]
                      THEN [reply EXCEPT ![r] = res] ELSE reply
    BY <1>1, ResultsFacts, ZenonT(30) DEF FinishCommand
  <1>4. running' = NoCommand /\ UNCHANGED <<queue, mesh, phase, asking, issued, told>>
    BY DEF FinishCommand
  <1> HIDE DEF r, k
  <1>5. /\ effect'[r][k] = res
        /\ \A q \in Requesters : \A n \in 1..MaxRequests :
             ~(q = r /\ n = k) => effect'[q][n] = effect[q][n]
    BY <1>2, <1>3 DEF TypeOK
  <1>6. ASSUME NEW i \in 1..Len(queue)
        PROVE  /\ queue[i].from \in Requesters /\ queue[i].seq \in 1..MaxRequests
               /\ ~(queue[i].from = r /\ queue[i].seq = k)
    <2>1. queue[i] \in Command
      BY DEF TypeOK
    <2>2. queue[i].from \in Requesters /\ queue[i].seq \in 1..MaxRequests
      BY <2>1, CommandFacts
    <2>3. queue[i].from = r => k < queue[i].seq
      BY <1>1 DEF RunningSound, r, k
    <2> QED  BY <2>2, <2>3, <1>2
  <1>7. QueueSound'
    BY <1>4, <1>5, <1>6 DEF QueueSound, Accepted
  <1>8. QueueOrdered' /\ RunningSound'
    BY <1>4 DEF QueueOrdered, RunningSound
  <1>9. ReplySound'
    <2> SUFFICES ASSUME NEW q \in Requesters, reply'[q] # "none"
                 PROVE  phase[q] = "waiting" /\ effect'[q][issued[q]] = reply'[q]
      BY <1>4 DEF ReplySound
    <2>1. CASE q = r /\ phase[r] = "waiting" /\ k = issued[r]
      <3>1. reply'[q] = res
        BY <2>1, <1>2, <1>3 DEF TypeOK
      <3> QED  BY <2>1, <3>1, <1>5
    <2>2. CASE ~(q = r /\ phase[r] = "waiting" /\ k = issued[r])
      <3>1. reply'[q] = reply[q]
        BY <2>2, <1>3 DEF TypeOK
      <3>2. phase[q] = "waiting" /\ effect[q][issued[q]] = reply[q] /\ reply[q] # "none"
        BY <3>1 DEF ReplySound
      <3>3. issued[q] \in 1..MaxRequests
        <4>1. phase[q] # "idle"
          BY <3>2
        <4> QED  BY <4>1 DEF PhaseSound, TypeOK
      <3>4. ~(q = r /\ issued[q] = k)
        BY <3>2, <1>2
      <3> QED  BY <3>1, <3>2, <3>3, <3>4, <1>5
    <2> QED  BY <2>1, <2>2
  <1>10. PhaseSound'
    <2>1. ASSUME NEW q \in Requesters, phase[q] = "sending"
          PROVE  effect'[q][issued[q]] = "none"
      <3>1. issued[q] \in 1..MaxRequests /\ effect[q][issued[q]] = "none"
        <4>1. phase[q] # "idle"
          BY <2>1
        <4>2. effect[q][issued[q]] = "none" /\ issued[q] > 0
          BY <2>1, <4>1 DEF PhaseSound
        <4> QED  BY <4>2 DEF TypeOK
      <3>2. ~(q = r /\ issued[q] = k)
        BY <2>1, <1>1 DEF Accepted, r, k
      <3> QED  BY <3>1, <3>2, <1>5
    <2> QED  BY <2>1, <1>4 DEF PhaseSound
  <1>11. Unissued'
    BY <1>2, <1>4, <1>5 DEF Unissued
  <1>12. Kept'
    <2> SUFFICES ASSUME NEW q \in Requesters, NEW n \in 1..MaxRequests,
                        n <= issued[q], effect'[q][n] = "none"
                 PROVE  Somewhere(q, n)'
      BY <1>4 DEF Kept
    <2>1. ~(q = r /\ n = k) /\ effect[q][n] = "none"
      BY <1>5
    <2>2. Somewhere(q, n)
      BY <2>1 DEF Kept
    <2> QED  BY <2>1, <2>2, <1>1, <1>4 DEF Somewhere, r, k
  <1>13. InOrder'
    <2>1. ASSUME NEW m \in 1..(k - 1)
          PROVE  effect[r][m] # "none"
      <3> SUFFICES ASSUME effect[r][m] = "none"
                   PROVE  FALSE
        OBVIOUS
      <3>1. m \in 1..MaxRequests /\ m < k /\ m <= issued[r]
        BY <1>2
      <3>2. Somewhere(r, m)
        BY <3>1, <1>2 DEF Kept
      <3>3. CASE m = issued[r] /\ phase[r] = "sending"
        BY <3>1, <3>3, <1>2
      <3>4. CASE \E i \in 1..Len(queue) : queue[i].from = r /\ queue[i].seq = m
        <4>1. PICK i \in 1..Len(queue) : queue[i].from = r /\ queue[i].seq = m
          BY <3>4
        <4>2. k < m
          BY <4>1, <1>1 DEF RunningSound, r, k
        <4> QED  BY <4>2, <3>1, <1>2
      <3>5. CASE running # NoCommand /\ running.from = r /\ running.seq = m
        BY <3>1, <3>5, <1>1, <1>2 DEF k
      <3> QED  BY <3>2, <3>3, <3>4, <3>5 DEF Somewhere
    <2> SUFFICES ASSUME NEW q \in Requesters, NEW n \in 1..MaxRequests,
                        effect'[q][n] # "none", NEW m \in 1..(n - 1)
                 PROVE  effect'[q][m] # "none"
      BY DEF InOrder
    <2>2. m \in 1..MaxRequests
      OBVIOUS
    <2>3. CASE q = r /\ n = k
      BY <2>1, <2>2, <2>3, <1>5
    <2>4. CASE ~(q = r /\ n = k)
      <3>1. effect[q][m] # "none"
        BY <2>4, <1>5 DEF InOrder
      <3> QED  BY <3>1, <2>2, <1>5
    <2> QED  BY <2>3, <2>4
  <1>14. Truthful'
    BY <1>2, <1>4, <1>5 DEF Truthful, TypeOK
  <1> QED  BY <1>7, <1>8, <1>9, <1>10, <1>11, <1>12, <1>13, <1>14

-----------------------------------------------------------------------------
(* The theorems.                                                           *)

\* The initial state satisfies the invariant.
LEMMA InitIInv == Init => IInv
  <1> SUFFICES ASSUME Init
               PROVE  IInv
    OBVIOUS
  <1>1. \A r \in Requesters : (CHOOSE k \in KindsOf(r) : TRUE) \in Kind
    BY KindsFacts
  <1>2. TypeOK
    <2>1. asking \in [Requesters -> Kind]
      BY <1>1 DEF Init
    <2>2. queue \in Seq(Command) /\ Len(queue) = 0
      BY DEF Init
    <2>3. phase \in [Requesters -> {"idle", "sending", "waiting"}]
      BY DEF Init
    <2>4. reply \in [Requesters -> {"none", "ok", "err"}]
      BY DEF Init
    <2>5. issued \in [Requesters -> 0..MaxRequests]
      BY QueueAssumption DEF Init
    <2>6. effect \in [Requesters -> [1..MaxRequests -> {"none", "ok", "err"}]]
      BY DEF Init
    <2>7. told \in [Requesters -> [1..MaxRequests -> {"none", "ok", "err", "timeout", "sent"}]]
      BY DEF Init
    <2>8. mesh \in {"away", "serving"} /\ running \in Command \cup {NoCommand}
      BY DEF Init
    <2>9. Len(queue) <= Capacity
      BY <2>2, QueueAssumption
    <2> QED
      BY <2>1, <2>2, <2>3, <2>4, <2>5, <2>6, <2>7, <2>8, <2>9 DEF TypeOK
  <1> QED
    BY <1>2, QueueAssumption
    DEF IInv, Init, QueueSound, QueueOrdered, RunningSound, ReplySound, PhaseSound,
        Unissued, Kept, Somewhere, InOrder, Truthful

\* Every step preserves the invariant.
LEMMA NextIInv == IInv /\ [Next]_vars => IInv'
  <1> SUFFICES ASSUME IInv, [Next]_vars
               PROVE  IInv'
    OBVIOUS
  <1>1. TypeOK'
    BY TypeStep DEF IInv
  <1>2. ASSUME NEW r \in Requesters, TaskStep(r)
        PROVE  IInv'
    BY <1>1, <1>2, SubmitStep, EnqueueStep, AnswerStep DEF TaskStep
  <1>3. CASE MeshStep
    <2>1. CASE Connect \/ LoseLink
      BY <1>1, <2>1, LinkStep DEF Connect, LoseLink, taskVars, history
    <2> QED  BY <1>1, <1>3, <2>1, TakeStep, FinishStep DEF MeshStep
  <1>4. CASE UNCHANGED vars
    BY <1>1, <1>4, LinkStep DEF vars, taskVars, history
  <1> QED  BY <1>2, <1>3, <1>4 DEF Next

\* The invariant holds in every reachable state.
THEOREM Invariance == Spec => []IInv
  BY InitIInv, NextIInv, PTL DEF Spec

\* The channel's state is well typed and never exceeds its capacity.
THEOREM TypeCorrect == Spec => []TypeOK
  <1>1. IInv => TypeOK
    BY DEF IInv
  <1> QED  BY <1>1, Invariance, PTL

\* No accepted command is ever lost, over any number of reconnections.
THEOREM NoCommandLost == Spec => []NothingLost
  <1>1. IInv => NothingLost
    <2> SUFFICES ASSUME IInv, NEW r \in Requesters, NEW n \in 1..issued[r],
                        effect[r][n] = "none", ~(n = issued[r] /\ phase[r] = "sending")
                 PROVE  \E c \in Pending : c.from = r /\ c.seq = n
      BY DEF NothingLost
    <2>1. n \in 1..MaxRequests /\ n <= issued[r]
      BY QueueAssumption DEF IInv, TypeOK
    <2>2. Somewhere(r, n)
      BY <2>1 DEF IInv, Kept
    <2> QED  BY <2>2 DEF Somewhere, Pending, Elements
  <1> QED  BY <1>1, Invariance, PTL

\* A retry never overtakes the original, even one that timed out.
THEOREM CommandsInOrder == Spec => []InOrder
  <1>1. IInv => InOrder
    BY DEF IInv
  <1> QED  BY <1>1, Invariance, PTL

\* A task is only ever told the outcome of its own current request.
THEOREM AnswersTruthful == Spec => []Truthful
  <1>1. IInv => Truthful
    BY DEF IInv
  <1> QED  BY <1>1, Invariance, PTL

-----------------------------------------------------------------------------
(* The channel implements CommandService.                                  *)

\* Every step of the channel is a step of the service or changes nothing the
\* service sees.
LEMMA ServiceStep ==
  ASSUME IInv, [Next]_vars
  PROVE  [Service!Next]_(Service!vars)
  <1> USE QueueAssumption DEF IInv, Service!vars
  <1>1. ASSUME NEW r \in Requesters, Submit(r)
        PROVE  Service!Ask(r)
    <2>1. issued[r] \in Nat
      BY DEF TypeOK
    <2> QED  BY <1>1, <2>1 DEF Submit, Service!Ask, PhaseSound
  <1>2. ASSUME NEW r \in Requesters, Deliver(r)
        PROVE  issued[r] \in 1..MaxRequests /\ Service!Answer(r, issued[r])
    <2>1. phase[r] # "idle" /\ reply[r] # "none"
      BY <1>2 DEF Deliver
    <2>2. issued[r] \in 1..MaxRequests /\ told[r][issued[r]] = "none"
      BY <2>1 DEF PhaseSound, TypeOK
    <2>3. effect[r][issued[r]] = reply[r]
      BY <2>1 DEF ReplySound
    <2> QED  BY <1>2, <2>1, <2>2, <2>3 DEF Deliver, Service!Answer
  <1>3. ASSUME NEW r \in Requesters, TimeOut(r)
        PROVE  issued[r] \in 1..MaxRequests /\ Service!LetGo(r, issued[r])
    <2>1. phase[r] # "idle"
      BY <1>3 DEF TimeOut
    <2>2. issued[r] \in 1..MaxRequests /\ told[r][issued[r]] = "none"
      BY <2>1 DEF PhaseSound, TypeOK
    <2> QED  BY <1>3, <2>2 DEF TimeOut, Service!LetGo
  <1>4. ASSUME NEW r \in Requesters, Enqueue(r)
        PROVE  \/ issued[r] \in 1..MaxRequests /\ Service!LetGo(r, issued[r])
               \/ UNCHANGED Service!vars
    <2>1. phase[r] # "idle"
      BY <1>4 DEF Enqueue
    <2>2. issued[r] \in 1..MaxRequests /\ told[r][issued[r]] = "none"
      BY <2>1 DEF PhaseSound, TypeOK
    <2>3. CASE asking[r] = "resync"
      BY <1>4, <2>2, <2>3 DEF Enqueue, Service!LetGo
    <2>4. CASE asking[r] # "resync"
      BY <1>4, <2>4 DEF Enqueue
    <2> QED  BY <2>3, <2>4
  <1>5. ASSUME FinishCommand
        PROVE  \E r \in Requesters : \E n \in 1..MaxRequests : Service!Perform(r, n)
    <2>1. PICK c \in Command : c = running /\ Accepted(c) /\ c # NoCommand
      BY <1>5 DEF FinishCommand, TypeOK, RunningSound
    <2>2. /\ c.from \in Requesters /\ c.seq \in 1..MaxRequests
          /\ c.seq <= issued[c.from] /\ effect[c.from][c.seq] = "none"
      BY <2>1, CommandFacts DEF Accepted
    <2>3. PICK res \in {"ok", "err"} : effect' = [effect EXCEPT ![c.from][c.seq] = res]
      BY <1>5, <2>1, ResultsFacts DEF FinishCommand
    <2>4. IInv' /\ UNCHANGED <<issued, told>>
      BY <1>5, FinishStep, TypeStep DEF FinishCommand
    <2>5. effect'[c.from][c.seq] # "none"
      BY <2>2, <2>3 DEF TypeOK
    <2>6. ASSUME NEW m \in 1..(c.seq - 1)
          PROVE  effect[c.from][m] # "none"
      <3>1. effect'[c.from][m] # "none"
        BY <2>2, <2>4, <2>5 DEF InOrder
      <3>2. m \in 1..MaxRequests /\ m # c.seq
        BY <2>2
      <3> QED  BY <3>1, <3>2, <2>2, <2>3 DEF TypeOK
    <2>7. Service!Perform(c.from, c.seq)
      BY <2>2, <2>3, <2>4, <2>6 DEF Service!Perform, Service!Outcome
    <2> QED  BY <2>2, <2>7
  <1>6. CASE Connect \/ LoseLink \/ TakeCommand \/ UNCHANGED vars
    BY <1>6 DEF Connect, LoseLink, TakeCommand, vars
  <1> QED
    BY <1>1, <1>2, <1>3, <1>4, <1>5, <1>6 DEF Next, MeshStep, TaskStep, Service!Next

\* One effect and one answer per request, in order, whatever the channel, the
\* node and the timers do.
THEOREM Refinement == Spec => ServiceSpec
  <1>1. Init => Service!Init
    BY DEF Init, Service!Init
  <1>2. IInv /\ [Next]_vars => [Service!Next]_(Service!vars)
    BY ServiceStep
  <1> QED  BY <1>1, <1>2, Invariance, PTL DEF Spec, ServiceSpec, Service!Spec
=============================================================================
