--------------------------- MODULE DeliveryProofs ---------------------------
(***************************************************************************)
(* Theorems about Delivery, for every set of Jobs, backoff limits and      *)
(* number of crashes.                                                      *)
(***************************************************************************)
EXTENDS Delivery, TLAPS

PodTypes ==
  /\ job \in [Jobs -> {"waiting", "active", "complete", "failed"}]
  /\ attempt \in [Jobs -> Nat]
  /\ pc \in [Jobs -> {"none", "run", "report", "post", "exited"} \cup Waiting]
  /\ stopping \in [Jobs -> BOOLEAN]
  /\ batch \in [Jobs -> [whole : BOOLEAN, at : Nat]]
  /\ clock \in Nat

ServerTypes ==
  /\ up \in BOOLEAN /\ crashes \in 0..MaxCrashes
  /\ store \in SUBSET Posted
  /\ stored \in SUBSET Posted

WireTypes ==
  /\ net \in SUBSET Message
  /\ answer \in [Jobs -> {"none", "created", "refused"}]
  /\ acked \in SUBSET Senders /\ givenUp \in SUBSET Senders

\* A step by what it leaves alone: the steps of a pod, the steps of the serve
\* process with a request, and the others.
Steps(j) == Start(j) \/ Terminate(j) \/ Kill(j) \/ Pod(j)

-----------------------------------------------------------------------------
(* Types.                                                                   *)

LEMMA SenderType ==
  ASSUME TypeOK, NEW j \in Jobs, attempt[j] # 0
  PROVE  Sender(j) \in Senders
BY DEF TypeOK, Sender, Senders

LEMMA PodTyping ==
  ASSUME TypeOK, NEW j \in Jobs, Steps(j)
  PROVE  PodTypes'
<1> USE DEF TypeOK, PodTypes, Waiting
<1>1. CASE Start(j)
  BY <1>1 DEF Start
<1>2. CASE Terminate(j)
  BY <1>2 DEF Terminate
<1>3. ASSUME NEW zero \in BOOLEAN, Ends(j, zero)
      PROVE  PodTypes'
  <2>1. /\ pc' \in [Jobs -> {"none", "run", "report", "post", "exited"} \cup Waiting]
        /\ attempt' \in [Jobs -> Nat] /\ clock' \in Nat
    BY <1>3 DEF Ends
  <2>2. job' \in [Jobs -> {"waiting", "active", "complete", "failed"}]
    BY <1>3 DEF Ends
  <2>3. batch' \in [Jobs -> [whole : BOOLEAN, at : Nat]]
    BY <1>3 DEF Ends, Nothing
  <2>4. stopping' \in [Jobs -> BOOLEAN]
    BY <1>3 DEF Ends
  <2> QED
    BY <2>1, <2>2, <2>3, <2>4
<1>4. CASE RunFails(j)
  BY <1>4 DEF RunFails, Moves
<1>5. CASE RunEnds(j)
  <2>1. pc' \in [Jobs -> {"none", "run", "report", "post", "exited"} \cup Waiting]
    BY <1>5 DEF RunEnds, Moves
  <2>2. batch' \in [Jobs -> [whole : BOOLEAN, at : Nat]]
    BY <1>5 DEF RunEnds
  <2> QED
    BY <1>5, <2>1, <2>2 DEF RunEnds
<1>6. CASE Report(j) \/ Post(j)
  BY <1>6 DEF Report, Post, Moves, Send
<1>7. CASE Kill(j) \/ NotSent(j) \/ NoAnswer(j)
  BY <1>3, <1>7 DEF Kill, NotSent, NoAnswer
<1>8. CASE ReceiveAnswer(j)
  BY <1>3, <1>8 DEF ReceiveAnswer
<1> QED
  BY <1>1, <1>2, <1>4, <1>5, <1>6, <1>7, <1>8
     DEF Steps, Pod, RunReturns, Sends, Hears

LEMMA WireTyping ==
  ASSUME TypeOK, Started, NEW j \in Jobs, Steps(j)
  PROVE  WireTypes'
<1> USE DEF TypeOK, WireTypes
<1>1. CASE Start(j) \/ Terminate(j) \/ RunFails(j) \/ RunEnds(j)
  BY <1>1 DEF Start, Terminate, RunFails, RunEnds, history
<1>2. pc[j] \in Waiting \cup {"post", "report"} => Sender(j) \in Senders
  BY SenderType DEF Started, Waiting
<1>3. CASE Report(j) \/ Post(j)
  <2>1. net' \in SUBSET Message
    BY <1>2, <1>3 DEF Report, Post, Send, Moves, Message
  <2> QED
    BY <1>3, <2>1 DEF Report, Post, Send, history
<1>4. ASSUME NEW zero \in BOOLEAN, Ends(j, zero)
      PROVE  answer' \in [Jobs -> {"none", "created", "refused"}]
  BY <1>4 DEF Ends
<1>5. CASE Kill(j) \/ NotSent(j) \/ NoAnswer(j)
  <2>1. answer' \in [Jobs -> {"none", "created", "refused"}]
    BY <1>4, <1>5 DEF Kill, NotSent, NoAnswer
  <2> QED
    BY <1>2, <1>5, <2>1 DEF Kill, NotSent, NoAnswer, history
<1>6. CASE ReceiveAnswer(j)
  <2>1. answer' \in [Jobs -> {"none", "created", "refused"}]
    BY <1>4, <1>6 DEF ReceiveAnswer
  <2> QED
    BY <1>2, <1>6, <2>1 DEF ReceiveAnswer
<1> QED
  BY <1>1, <1>3, <1>5, <1>6 DEF Steps, Pod, RunReturns, Sends, Hears

LEMMA Typing ==
  ASSUME TypeOK, Started, [Next]_vars
  PROVE  TypeOK'
<1>1. CASE UNCHANGED vars
  BY <1>1 DEF vars, serverVars, podVars, history, TypeOK
<1>2. ASSUME NEW j \in Jobs, Steps(j)
      PROVE  TypeOK'
  <2>1. UNCHANGED <<serverVars, stored>>
    BY <1>2 DEF Steps, Start, Terminate, Kill, Pod, RunReturns, RunFails, RunEnds, Sends,
                Report, Post, Send, NotSent, Hears, ReceiveAnswer, NoAnswer, history
  <2>2. PodTypes' /\ WireTypes'
    BY <1>2, PodTyping, WireTyping
  <2> QED
    BY <2>1, <2>2 DEF PodTypes, WireTypes, TypeOK, serverVars
<1>3. ASSUME NEW m \in net, Handle(m)
      PROVE  TypeOK'
  <2>1. UNCHANGED <<podVars, acked, givenUp, up, crashes>> /\ net' \in SUBSET Message
    BY <1>3 DEF Handle, Refuse, RecordFailure, SaveResults, history, serverVars, TypeOK
  <2>2. ASSUME NEW text \in {"created", "refused"}, Answer(m, text)
        PROVE  answer' \in [Jobs -> {"none", "created", "refused"}]
    BY <2>2 DEF Answer, TypeOK
  <2>3. answer' \in [Jobs -> {"none", "created", "refused"}]
    BY <1>3, <2>2 DEF Handle, Refuse, RecordFailure, SaveResults
  <2>4. store' \in SUBSET Posted /\ stored' \in SUBSET Posted
    <3>1. [from |-> m.from, whole |-> m.whole, at |-> m.at] \in Posted
      BY DEF TypeOK, Message, Posted
    <3> QED
      BY <1>3, <3>1 DEF Handle, Refuse, RecordFailure, SaveResults, history, serverVars,
                        TypeOK
  <2> QED
    BY <2>1, <2>3, <2>4 DEF TypeOK, podVars
<1>4. CASE Lose
  BY <1>4 DEF Lose, TypeOK, serverVars, podVars, history
<1>5. CASE Crash
  <2>1. crashes' \in 0..MaxCrashes
    BY <1>5, NumbersAreNatural DEF Crash, TypeOK
  <2> QED
    BY <1>5, <2>1 DEF Crash, TypeOK, podVars, history
<1>6. CASE Restart
  BY <1>6 DEF Restart, TypeOK, podVars, history
<1> QED
  BY <1>1, <1>2, <1>3, <1>4, <1>5, <1>6 DEF Next, Steps, Quiet

LEMMA Starting ==
  ASSUME TypeOK, Started, [Next]_vars
  PROVE  Started'
<1> SUFFICES ASSUME NEW i \in Jobs, pc'[i] # "none"
             PROVE  attempt'[i] # 0
  BY DEF Started
<1>1. CASE UNCHANGED <<pc, attempt>>
  BY <1>1 DEF Started
<1>2. ASSUME NEW j \in Jobs, Start(j)
      PROVE  attempt'[i] # 0
  BY <1>2 DEF Start, Started, TypeOK
<1>3. ASSUME NEW j \in Jobs, pc[j] # "none", UNCHANGED attempt,
             \A k \in Jobs \ {j} : pc'[k] = pc[k]
      PROVE  attempt'[i] # 0
  BY <1>3 DEF Started
<1>4. ASSUME NEW j \in Jobs, Kill(j) \/ Pod(j)
      PROVE  attempt'[i] # 0
  BY <1>3, <1>4
     DEF Kill, Pod, RunReturns, RunFails, RunEnds, Moves, Sends, Report, Post, Send,
         NotSent, Hears, ReceiveAnswer, NoAnswer, Ends, Running, Waiting, TypeOK
<1> QED
  BY <1>1, <1>2, <1>4
     DEF Next, Terminate, Handle, Refuse, RecordFailure, SaveResults, Lose, Crash, Restart,
         Quiet, vars, podVars

-----------------------------------------------------------------------------
(* What a step of a pod leaves of the others, and of its own place.         *)

\* A step of one pod is none of another's.
LEMMA OthersStay ==
  ASSUME TypeOK, NEW j \in Jobs, Steps(j), NEW k \in Jobs \ {j}
  PROVE  /\ pc'[k] = pc[k] /\ attempt'[k] = attempt[k] /\ batch'[k] = batch[k]
         /\ answer'[k] = answer[k] /\ job'[k] = job[k]
<1> USE DEF TypeOK
<1>1. CASE Start(j) \/ Terminate(j)
  BY <1>1 DEF Start, Terminate
<1>2. CASE RunReturns(j) \/ Report(j) \/ Post(j)
  BY <1>2 DEF RunReturns, RunFails, RunEnds, Report, Post, Send, Moves
<1>3. CASE Kill(j) \/ NotSent(j) \/ Hears(j)
  BY <1>3 DEF Kill, NotSent, Hears, ReceiveAnswer, NoAnswer, Ends
<1> QED
  BY <1>1, <1>2, <1>3 DEF Steps, Pod, Sends

\* The kinds of step of a pod, by what they do to its own place.
LEMMA OwnPlace ==
  ASSUME TypeOK, NEW j \in Jobs, Steps(j)
  PROVE  \/ /\ attempt'[j] = attempt[j] + 1 /\ pc[j] = "none" /\ pc'[j] = "run"
            /\ UNCHANGED <<batch, clock, answer, net>>
         \/ UNCHANGED <<pc, attempt, batch, clock, answer, net, job>>
         \/ /\ pc[j] \notin {"none", "exited"} /\ pc'[j] \in {"none", "exited"}
            /\ answer'[j] = "none"
            /\ UNCHANGED <<attempt, clock, net>>
         \/ /\ pc[j] = "run" /\ pc'[j] = "report"
            /\ UNCHANGED <<attempt, batch, clock, answer, net, job>>
         \/ /\ pc[j] = "run" /\ pc'[j] = "post" /\ clock' = clock + 1
            /\ batch'[j].at = clock + 1
            /\ UNCHANGED <<attempt, answer, net, job>>
         \/ /\ <<pc[j], pc'[j]>> \in {<<"report", "reporting">>, <<"post", "posting">>}
            /\ net' = net \cup
                 {[from |-> Sender(j), whole |-> batch[j].whole, at |-> batch[j].at,
                   status |-> IF pc[j] = "post" THEN "success" ELSE "failure"]}
            /\ UNCHANGED <<attempt, batch, clock, answer, job>>
<1> USE DEF TypeOK
<1>1. CASE Start(j)
  BY <1>1 DEF Start
<1>2. CASE Terminate(j)
  BY <1>2 DEF Terminate
<1>3. CASE Kill(j) \/ NotSent(j) \/ NoAnswer(j) \/ ReceiveAnswer(j)
  BY <1>3 DEF Kill, Running, NotSent, NoAnswer, ReceiveAnswer, Ends, Waiting
<1>4. CASE RunFails(j)
  BY <1>4 DEF RunFails, Moves
<1>5. CASE RunEnds(j)
  BY <1>5 DEF RunEnds, Moves
<1>6. CASE Report(j)
  BY <1>6 DEF Report, Moves, Send
<1>7. CASE Post(j)
  BY <1>7 DEF Post, Moves, Send
<1> QED
  BY <1>1, <1>2, <1>3, <1>4, <1>5, <1>6, <1>7 DEF Steps, Pod, RunReturns, Sends, Hears

LEMMA ServerStays ==
  ASSUME NEW j \in Jobs, Steps(j)
  PROVE  UNCHANGED <<up, store, crashes, stored>> /\ acked \subseteq acked'
         /\ givenUp \subseteq givenUp'
BY DEF Steps, Start, Terminate, Kill, Pod, RunReturns, RunFails, RunEnds, Sends, Report,
       Post, Send, NotSent, Hears, ReceiveAnswer, NoAnswer, history, serverVars

-----------------------------------------------------------------------------
(* Where what was sent stands.                                              *)

LEMMA SentTypes ==
  ASSUME TypeOK, NEW p \in net \cup store
  PROVE  p.from[1] \in Jobs /\ p.from[2] \in Nat \ {0} /\ p.at \in Nat
         /\ p.from = <<p.from[1], p.from[2]>>
BY DEF TypeOK, Message, Posted, Senders

\* What is on its way or stored keeps its place when a pod moves on.
LEMMA PlacedStays ==
  ASSUME TypeOK, TypeOK', NEW j \in Jobs, Steps(j),
         NEW p \in net \cup store, Placed(p)
  PROVE  Placed(p)'
<1> DEFINE i == p.from[1]
<1>1. i \in Jobs /\ p.from[2] \in Nat \ {0} /\ p.at \in Nat
      /\ p.from = <<i, p.from[2]>>
  BY SentTypes
<1>2. clock \in Nat /\ attempt[i] \in Nat /\ batch[i].at \in Nat
  BY <1>1 DEF TypeOK
<1>3. clock' >= clock
  BY OwnPlace, <1>2
<1>4. CASE i # j
  <2>1. pc'[i] = pc[i] /\ attempt'[i] = attempt[i] /\ batch'[i] = batch[i]
    BY <1>1, <1>4, OthersStay
  <2> QED
    BY <1>1, <1>2, <1>3, <2>1, TypeOK' DEF Placed, Sender, TypeOK
<1>5. CASE i = j
  <2>1. CASE attempt'[j] = attempt[j] + 1 /\ pc[j] = "none" /\ pc'[j] = "run"
             /\ UNCHANGED <<batch, clock, answer, net>>
    BY <1>1, <1>2, <1>5, <2>1 DEF Placed, Sender, Waiting
  <2>2. CASE UNCHANGED <<pc, attempt, batch, clock, answer, net, job>>
    BY <1>1, <1>5, <2>2 DEF Placed, Sender
  <2>3. CASE pc[j] \notin {"none", "exited"} /\ pc'[j] \in {"none", "exited"}
             /\ UNCHANGED <<attempt, clock, net>>
    BY <1>1, <1>2, <1>5, <2>3 DEF Placed, Sender, Waiting
  <2>4. CASE pc[j] = "run" /\ pc'[j] = "report"
             /\ UNCHANGED <<attempt, batch, clock, answer, net, job>>
    BY <1>1, <1>2, <1>5, <2>4 DEF Placed, Sender, Waiting
  <2>5. CASE pc[j] = "run" /\ pc'[j] = "post" /\ clock' = clock + 1
             /\ batch'[j].at = clock + 1 /\ UNCHANGED <<attempt, answer, net, job>>
    BY <1>1, <1>2, <1>5, <2>5 DEF Placed, Sender, Waiting
  <2>6. CASE <<pc[j], pc'[j]>> \in {<<"report", "reporting">>, <<"post", "posting">>}
             /\ UNCHANGED <<attempt, batch, clock, answer, job>>
    BY <1>1, <1>2, <1>5, <2>6 DEF Placed, Sender, Waiting
  <2> QED
    BY <2>1, <2>2, <2>3, <2>4, <2>5, <2>6, OwnPlace
<1> QED
  BY <1>4, <1>5

\* So does what has the sender, the time and the extent of it, while pods stay.
LEMMA PlacedCopied ==
  ASSUME NEW p, NEW q, q.from = p.from, q.at = p.at, q.whole = p.whole,
         Placed(p), UNCHANGED podVars
  PROVE  Placed(q)'
BY DEF Placed, podVars, Sender

LEMMA Stamping ==
  ASSUME TypeOK, Stamped, [Next]_vars
  PROVE  Stamped'
<1>1. CASE UNCHANGED <<batch, clock>>
  BY <1>1 DEF Stamped
<1>2. ASSUME NEW j \in Jobs, Kill(j) \/ Pod(j), NEW i \in Jobs
      PROVE  batch'[i].at <= clock'
  <2>1. clock \in Nat /\ batch[i].at <= clock
    BY DEF Stamped, TypeOK
  <2>2. CASE RunEnds(j)
    <3>1. PICK whole \in BOOLEAN :
            batch' = [batch EXCEPT ![j] = [whole |-> whole, at |-> clock + 1]]
      BY <2>2 DEF RunEnds
    <3>2. clock' = clock + 1
      BY <2>2 DEF RunEnds
    <3>3. batch'[i].at = IF i = j THEN clock + 1 ELSE batch[i].at
      BY <3>1 DEF TypeOK
    <3>4. batch[i].at \in Nat
      BY DEF TypeOK
    <3> QED
      BY <2>1, <3>2, <3>3, <3>4
  <2>3. CASE UNCHANGED <<batch, clock>>
    BY <2>1, <2>3
  <2>4. ASSUME NEW zero \in BOOLEAN, Ends(j, zero)
        PROVE  batch'[i].at <= clock'
    BY <2>1, <2>4 DEF Ends, Nothing, TypeOK
  <2> QED
    BY <1>2, <2>2, <2>3, <2>4
       DEF Kill, Pod, RunReturns, RunFails, Sends, Report, Post, Send, NotSent, Hears,
           ReceiveAnswer, NoAnswer
<1>3. CASE \E j \in Jobs : Kill(j) \/ Pod(j)
  BY <1>2, <1>3 DEF Stamped
<1> QED
  BY <1>1, <1>3
     DEF Next, Start, Terminate, Handle, Refuse, RecordFailure, SaveResults, Lose, Crash,
         Restart, Quiet, vars, podVars

LEMMA Placing ==
  ASSUME TypeOK, TypeOK', Stamped, \A p \in net \cup store : Placed(p), [Next]_vars
  PROVE  \A p \in net' \cup store' : Placed(p)'
<1> SUFFICES ASSUME NEW p \in net' \cup store'
             PROVE  Placed(p)'
  OBVIOUS
<1>1. CASE p \in net \cup store /\ UNCHANGED podVars
  BY <1>1, PlacedCopied
<1>2. ASSUME NEW j \in Jobs, Steps(j)
      PROVE  Placed(p)'
  <2>1. CASE p \in net \cup store
    BY <1>2, <2>1, PlacedStays
  <2>2. CASE p \notin net \cup store
    <3>1. UNCHANGED store
      BY <1>2, ServerStays
    <3>2. /\ <<pc[j], pc'[j]>> \in {<<"report", "reporting">>, <<"post", "posting">>}
          /\ p = [from |-> Sender(j), whole |-> batch[j].whole, at |-> batch[j].at,
                  status |-> IF pc[j] = "post" THEN "success" ELSE "failure"]
          /\ UNCHANGED <<attempt, batch, clock>>
      BY <1>2, <2>2, <3>1, OwnPlace
    <3>3. attempt[j] \in Nat /\ batch[j].at \in Nat /\ clock \in Nat
      BY DEF TypeOK
    <3>4. batch[j].at <= clock
      BY DEF Stamped
    <3> QED
      BY <3>2, <3>3, <3>4 DEF Placed, Sender, Waiting
  <2> QED
    BY <2>1, <2>2
<1>3. ASSUME NEW m \in net, SaveResults(m), p \notin net \cup store
      PROVE  Placed(p)'
  <2>1. p = [from |-> m.from, whole |-> m.whole, at |-> m.at]
    BY <1>3 DEF SaveResults
  <2>2. UNCHANGED podVars
    BY <1>3 DEF SaveResults
  <2> QED
    BY <2>1, <2>2, PlacedCopied
<1> QED
  BY <1>1, <1>2, <1>3
     DEF Next, Steps, Handle, Refuse, RecordFailure, SaveResults, Lose, Crash, Restart,
         Quiet, vars, podVars, serverVars

-----------------------------------------------------------------------------
(* What is on the way.                                                      *)

\* A sender that gives up is recorded when its pod ends.
LEMMA LeavingGivesUp ==
  ASSUME TypeOK, NEW j \in Jobs, Steps(j), pc[j] \in Waiting, answer[j] = "none"
  PROVE  \/ UNCHANGED <<pc, attempt, batch, clock, answer, net, job>>
         \/ Sender(j) \in givenUp'
BY DEF Steps, Start, Terminate, Kill, Pod, RunReturns, RunFails, RunEnds, Sends, Report,
       Post, NotSent, Hears, ReceiveAnswer, NoAnswer, Moves, Waiting

\* The request of a pod that waits is the only one of its sender.
LEMMA OnlyRequest ==
  ASSUME TypeOK, NEW m \in net, NEW n \in net, m.from = n.from,
         Placed(m), Placed(n), Awaited(m), Awaited(n), m.from \notin givenUp
  PROVE  m = n
<1>1. m \in Message /\ n \in Message
  BY DEF TypeOK
<1>2. m.at = n.at /\ m.whole = n.whole /\ m.status = n.status
  BY DEF Placed, Awaited
<1> QED
  BY <1>1, <1>2 DEF Message

LEMMA AwaitedStays ==
  ASSUME TypeOK, NEW j \in Jobs, Steps(j), NEW m \in net, Placed(m), Awaited(m)
  PROVE  Awaited(m)'
<1> DEFINE i == m.from[1]
<1>1. i \in Jobs /\ m.from[2] \in Nat \ {0} /\ m.from = <<i, m.from[2]>>
  BY SentTypes
<1>2. givenUp \subseteq givenUp'
  BY ServerStays
<1>3. CASE i # j
  <2>1. pc'[i] = pc[i] /\ attempt'[i] = attempt[i] /\ answer'[i] = answer[i]
    BY <1>1, <1>3, OthersStay
  <2> QED
    BY <1>1, <1>2, <2>1 DEF Awaited, Sender
<1>4. CASE i = j
  <2>1. attempt[j] \in Nat
    BY DEF TypeOK
  <2>2. CASE m.from \notin givenUp
    <3>1. m.from = Sender(j) /\ pc[j] \in Waiting /\ answer[j] = "none"
      BY <1>4, <2>2 DEF Awaited
    <3>2. CASE UNCHANGED <<pc, attempt, batch, clock, answer, net, job>>
      BY <1>1, <1>2, <1>4, <3>2 DEF Awaited, Sender
    <3>3. CASE Sender(j) \in givenUp'
      <4>1. pc'[j] \in Waiting => UNCHANGED pc
        BY <3>1, OwnPlace DEF Waiting
      <4>2. attempt' = attempt \/ pc[j] = "none"
        BY OwnPlace
      <4> QED
        BY <1>4, <3>1, <3>3, <4>1, <4>2 DEF Awaited, Sender, Waiting
    <3> QED
      BY <3>1, <3>2, <3>3, LeavingGivesUp
  <2>3. CASE m.from \in givenUp
    <3>1. m.from = Sender(j) => pc[j] \notin {"run", "report", "post"}
      BY <1>4 DEF Placed
    <3>2. m.from[2] <= attempt[j]
      BY <1>4 DEF Placed
    <3>3. (m.from = Sender(j))' /\ pc'[j] \in Waiting =>
            m.from = Sender(j) /\ pc[j] = pc'[j]
      BY <1>1, <2>1, <3>1, <3>2, OwnPlace DEF Sender, Waiting
    <3> QED
      BY <1>2, <1>4, <2>3, <3>3 DEF Awaited, Sender
  <2> QED
    BY <2>2, <2>3
<1> QED
  BY <1>3, <1>4

LEMMA Awaiting ==
  ASSUME TypeOK, TypeOK', [Next]_vars,
         \A p \in net \cup store : Placed(p), \A m \in net : Awaited(m),
         \A j \in Jobs : Truthful(j)
  PROVE  \A m \in net' : Awaited(m)'
<1> SUFFICES ASSUME NEW m \in net'
             PROVE  Awaited(m)'
  OBVIOUS
<1>1. ASSUME NEW j \in Jobs, Steps(j)
      PROVE  Awaited(m)'
  <2>1. CASE m \in net
    BY <1>1, <2>1, AwaitedStays
  <2>2. CASE m \notin net
    <3>1. /\ <<pc[j], pc'[j]>> \in {<<"report", "reporting">>, <<"post", "posting">>}
          /\ m = [from |-> Sender(j), whole |-> batch[j].whole, at |-> batch[j].at,
                  status |-> IF pc[j] = "post" THEN "success" ELSE "failure"]
          /\ UNCHANGED <<attempt, answer>>
      BY <1>1, <2>2, OwnPlace
    <3>2. answer[j] = "none"
      BY <3>1 DEF Truthful, Waiting
    <3> QED
      BY <3>1, <3>2 DEF Awaited, Sender, Waiting
  <2> QED
    BY <2>1, <2>2
<1>2. ASSUME NEW n \in net, Handle(n)
      PROVE  Awaited(m)'
  <2>1. m \in net /\ m # n /\ UNCHANGED <<podVars, givenUp>>
    BY <1>2 DEF Handle, Refuse, RecordFailure, SaveResults, history
  <2>2. m.from \notin givenUp => m.from # n.from
    BY <2>1, OnlyRequest
  <2>3. n.from[1] = m.from[1] /\ m.from \notin givenUp => Sender(n.from[1]) # n.from
    BY <2>1, <2>2 DEF Awaited
  <2>4. PICK text \in {"created", "refused"} : Answer(n, text)
    BY <1>2 DEF Handle, Refuse, RecordFailure, SaveResults
  <2>5. m.from \notin givenUp => answer'[m.from[1]] = answer[m.from[1]]
    BY <2>1, <2>3, <2>4, SentTypes DEF Answer, TypeOK
  <2> QED
    BY <2>1, <2>5 DEF Awaited, podVars, Sender
<1>3. CASE Lose
  BY <1>3, SentTypes DEF Lose, Awaited, podVars, history, Sender, TypeOK
<1>4. CASE Crash \/ Restart \/ Quiet \/ UNCHANGED vars
  BY <1>4 DEF Crash, Restart, Quiet, Awaited, vars, podVars, history, Sender
<1> QED
  BY <1>1, <1>2, <1>3, <1>4 DEF Next, Steps

-----------------------------------------------------------------------------
(* What pods are told, and what is on show.                                 *)

LEMMA ShownStays ==
  ASSUME UNCHANGED store, givenUp \subseteq givenUp', NEW sender, OnShow(sender)
  PROVE  OnShow(sender)'
BY DEF OnShow

\* What is saved is the newest of its Job, or of a pod that gave up.
LEMMA SavedIsOnShow ==
  ASSUME TypeOK, NEW m \in net, Awaited(m), SaveResults(m),
         NEW sender \in Jobs \X Nat, sender[2] <= attempt[sender[1]]
  PROVE  OnShow(sender)'
<1> DEFINE q == [from |-> m.from, whole |-> m.whole, at |-> m.at]
<1>1. store' = {q} /\ givenUp' = givenUp
  BY DEF SaveResults
<1>2. ASSUME q.from[1] = sender[1], q.from[2] < sender[2]
      PROVE  q.from \in givenUp
  <2>1. q.from # <<sender[1], attempt[sender[1]]>>
    <3>1. sender[2] \in Nat /\ attempt[sender[1]] \in Nat /\ q.from[2] \in Nat
      BY SentTypes DEF TypeOK
    <3> QED
      BY <1>2, <3>1
  <2> QED
    BY <1>2, <2>1 DEF Awaited, Sender
<1> QED
  BY <1>1, <1>2 DEF OnShow

LEMMA TruthStays ==
  ASSUME TypeOK, NEW j \in Jobs, Steps(j), NEW i \in Jobs, Truthful(i)
  PROVE  Truthful(i)'
<1>1. UNCHANGED <<store, crashes, stored>> /\ givenUp \subseteq givenUp'
  BY ServerStays
<1>2. CASE i # j \/ UNCHANGED <<pc, attempt, batch, clock, answer, net, job>>
  <2>1. pc'[i] = pc[i] /\ attempt'[i] = attempt[i] /\ batch'[i] = batch[i]
        /\ answer'[i] = answer[i]
    BY <1>2, OthersStay
  <2>2. Sender(i)' = Sender(i)
    BY <2>1 DEF Sender
  <2>3. OnShow(Sender(i)) => OnShow(Sender(i))'
    BY <1>1, <2>2 DEF OnShow
  <2> QED
    BY <1>1, <2>1, <2>2, <2>3 DEF Truthful
<1>3. CASE i = j /\ ~UNCHANGED <<pc, attempt, batch, clock, answer, net, job>>
  <2>1. answer'[j] = "none"
    BY <1>3, OwnPlace DEF Truthful, Waiting
  <2> QED
    BY <1>3, <2>1 DEF Truthful
<1> QED
  BY <1>2, <1>3

LEMMA HandlingIsTruthful ==
  ASSUME TypeOK, NEW m \in net, Handle(m), Placed(m), Awaited(m),
         NEW i \in Jobs, Truthful(i)
  PROVE  Truthful(i)'
<1>1. UNCHANGED <<podVars, crashes, givenUp>> /\ Sender(i)' = Sender(i)
  BY DEF Handle, Refuse, RecordFailure, SaveResults, serverVars, history, podVars, Sender
<1>2. m.from[1] \in Jobs
  BY SentTypes
<1>3. ASSUME NEW text \in {"created", "refused"}, Answer(m, text)
      PROVE  \/ answer'[i] = answer[i]
             \/ answer'[i] = text /\ m.from = Sender(i) /\ pc[i] \in Waiting
  BY <1>2, <1>3 DEF Answer, TypeOK, Sender
<1>4. CASE Refuse(m)
  <2>1. /\ \/ answer'[i] = answer[i]
           \/ answer'[i] = "refused" /\ pc[i] \in Waiting
        /\ UNCHANGED <<store, stored, givenUp>>
    BY <1>3, <1>4 DEF Refuse, serverVars, history
  <2>2. OnShow(Sender(i)) => OnShow(Sender(i))'
    BY <1>1, <2>1 DEF OnShow
  <2> QED
    BY <1>1, <2>1, <2>2 DEF Truthful, podVars
<1>5. CASE RecordFailure(m)
  <2>1. /\ \/ answer'[i] = answer[i]
           \/ m.from = Sender(i) /\ pc[i] \in Waiting
        /\ UNCHANGED <<store, stored, givenUp>> /\ m.status = "failure"
    BY <1>3, <1>5 DEF RecordFailure, serverVars, history
  <2>2. OnShow(Sender(i)) => OnShow(Sender(i))'
    BY <1>1, <2>1 DEF OnShow
  <2>3. m.from = Sender(i) /\ pc[i] \in Waiting => pc[i] # "posting"
    BY <2>1 DEF Awaited, Sender
  <2> QED
    BY <1>1, <2>1, <2>2, <2>3 DEF Truthful, podVars
<1>6. CASE SaveResults(m)
  <2>1. \/ answer'[i] = answer[i]
        \/ m.from = Sender(i) /\ pc[i] \in Waiting
    BY <1>3, <1>6 DEF SaveResults
  <2>2. OnShow(Sender(i))'
    <3>1. PICK sender \in Jobs \X Nat :
            sender = Sender(i) /\ sender[2] <= attempt[sender[1]]
      <4>1. Sender(i) \in Jobs \X Nat
        BY DEF Sender, TypeOK
      <4>2. Sender(i)[1] = i /\ Sender(i)[2] = attempt[i] /\ attempt[i] \in Nat
        BY DEF Sender, TypeOK
      <4> QED
        BY <4>1, <4>2
    <3>2. OnShow(sender)'
      BY <1>6, <3>1, SavedIsOnShow
    <3> QED
      BY <1>1, <3>1, <3>2 DEF OnShow
  <2>3. m.from = Sender(i) /\ pc[i] = "posting" =>
          \E p \in stored' : p.from = Sender(i) /\ p.whole = batch[i].whole
    <3>1. [from |-> m.from, whole |-> m.whole, at |-> m.at] \in stored'
      BY <1>6 DEF SaveResults
    <3> QED
      BY <3>1 DEF Placed, Sender, Waiting
  <2>4. stored \subseteq stored'
    BY <1>6 DEF SaveResults
  <2> QED
    BY <1>1, <2>1, <2>2, <2>3, <2>4 DEF Truthful, podVars
<1> QED
  BY <1>4, <1>5, <1>6 DEF Handle

LEMMA Telling ==
  ASSUME TypeOK, [Next]_vars, \A j \in Jobs : Truthful(j),
         \A p \in net \cup store : Placed(p), \A m \in net : Awaited(m)
  PROVE  \A j \in Jobs : Truthful(j)'
<1> SUFFICES ASSUME NEW i \in Jobs
             PROVE  Truthful(i)'
  OBVIOUS
<1>1. ASSUME NEW j \in Jobs, Steps(j)
      PROVE  Truthful(i)'
  BY <1>1, TruthStays
<1>2. ASSUME NEW m \in net, Handle(m)
      PROVE  Truthful(i)'
  BY <1>2, HandlingIsTruthful
<1>3. CASE Lose
  <2>1. UNCHANGED <<pc, attempt, batch, store, crashes, stored, givenUp>>
        /\ answer'[i] \in {"none", answer[i]}
    BY <1>3 DEF Lose, serverVars, podVars, history, TypeOK
  <2>2. OnShow(Sender(i)) => OnShow(Sender(i))'
    BY <2>1 DEF OnShow, Sender
  <2> QED
    BY <2>1, <2>2 DEF Truthful, Sender
<1>4. CASE Crash
  <2>1. crashes' # 0 /\ UNCHANGED <<pc, attempt, batch, answer, stored>>
    BY <1>4 DEF Crash, TypeOK, podVars, history
  <2> QED
    BY <2>1 DEF Truthful, Sender
<1>5. CASE Restart \/ UNCHANGED vars
  <2>1. UNCHANGED <<pc, attempt, batch, answer, stored, store, crashes, givenUp>>
    BY <1>5 DEF Restart, vars, serverVars, podVars, history
  <2>2. OnShow(Sender(i)) => OnShow(Sender(i))'
    BY <2>1 DEF OnShow, Sender
  <2> QED
    BY <2>1, <2>2 DEF Truthful, Sender
<1> QED
  BY <1>1, <1>2, <1>3, <1>4, <1>5 DEF Next, Steps, Quiet

-----------------------------------------------------------------------------
(* The invariant and what follows from it.                                  *)

\* The senders that were answered are of pods the Job has had, and a complete
\* Job has no pod any more.
LEMMA Ending ==
  ASSUME TypeOK, Ended, [Next]_vars
  PROVE  Ended'
<1> SUFFICES ASSUME NEW i \in Jobs, job'[i] = "complete"
             PROVE  pc'[i] = "exited"
  BY DEF Ended
<1>1. ASSUME NEW j \in Jobs, Steps(j)
      PROVE  pc'[i] = "exited"
  <2>1. CASE i # j
    BY <1>1, <2>1, OthersStay DEF Ended
  <2>2. CASE i = j
    BY <1>1, <2>2
       DEF Steps, Start, Terminate, Kill, Running, Pod, RunReturns, RunFails, RunEnds,
           Moves, Sends, Report, Post, Send, NotSent, Hears, ReceiveAnswer, NoAnswer, Ends,
           Ended, Waiting, TypeOK
  <2> QED
    BY <2>1, <2>2
<1> QED
  BY <1>1
     DEF Next, Steps, Handle, Refuse, RecordFailure, SaveResults, Lose, Crash, Restart,
         Quiet, vars, podVars, Ended

LEMMA Replacing ==
  ASSUME Latest, [Next]_vars
  PROVE  Latest'
<1>1. CASE store' \subseteq store
  BY <1>1 DEF Latest
<1>2. CASE \E p : store' = {p}
  BY <1>2 DEF Latest
<1> QED
  BY <1>1, <1>2, ServerStays
     DEF Next, Steps, Handle, Refuse, RecordFailure, SaveResults, Lose, Crash, Restart,
         Quiet, vars, serverVars

Answered == \A sender \in acked : sender[2] <= attempt[sender[1]]

LEMMA Answering ==
  ASSUME TypeOK, Answered, [Next]_vars
  PROVE  Answered'
<1> SUFFICES ASSUME NEW sender \in acked'
             PROVE  sender[2] <= attempt'[sender[1]]
  BY DEF Answered
<1>1. CASE UNCHANGED <<acked, attempt>>
  BY <1>1 DEF Answered
<1>2. ASSUME NEW j \in Jobs, Steps(j)
      PROVE  sender[2] <= attempt'[sender[1]]
  <2>1. CASE sender \in acked
    <3>1. sender[1] \in Jobs /\ sender[2] \in Nat /\ attempt[sender[1]] \in Nat
      BY <2>1 DEF TypeOK, Senders
    <3>2. attempt'[sender[1]] = attempt[sender[1]]
          \/ attempt'[sender[1]] = attempt[sender[1]] + 1
      BY <1>2, <3>1, OthersStay, OwnPlace
    <3> QED
      BY <2>1, <3>1, <3>2 DEF Answered
  <2>2. CASE sender \notin acked
    <3>1. sender = Sender(j) /\ attempt' = attempt
      BY <1>2, <2>2
         DEF Steps, Start, Terminate, Kill, Pod, RunReturns, RunFails, RunEnds, Sends,
             Report, Post, Send, NotSent, Hears, ReceiveAnswer, NoAnswer, Ends, history
    <3>2. attempt[j] \in Nat
      BY DEF TypeOK
    <3> QED
      BY <3>1, <3>2 DEF Sender
  <2> QED
    BY <2>1, <2>2
<1> QED
  BY <1>1, <1>2
     DEF Next, Steps, Handle, Refuse, RecordFailure, SaveResults, Lose, Crash, Restart,
         Quiet, vars, podVars, history

LEMMA DeliveryInit ==
  Init => DeliveryInv
<1> SUFFICES ASSUME Init
             PROVE  DeliveryInv
  OBVIOUS
<1>1. TypeOK
  BY NumbersAreNatural DEF Init, TypeOK, Nothing, Waiting, Posted, Message, Senders
<1>2. Started /\ Stamped /\ Latest /\ Ended
  BY DEF Init, Started, Stamped, Latest, Ended, Nothing
<1>3. \A j \in Jobs : Truthful(j)
  BY DEF Init, Truthful
<1> QED
  BY <1>1, <1>2, <1>3 DEF DeliveryInv, Init

LEMMA DeliveryStep ==
  DeliveryInv /\ [Next]_vars => DeliveryInv'
<1> SUFFICES ASSUME DeliveryInv, [Next]_vars
             PROVE  DeliveryInv'
  OBVIOUS
<1>1. TypeOK'
  BY Typing DEF DeliveryInv
<1>2. Started' /\ Stamped' /\ Latest' /\ Ended'
  BY Starting, Stamping, Replacing, Ending DEF DeliveryInv
<1>3. \A p \in net' \cup store' : Placed(p)'
  BY <1>1, Placing DEF DeliveryInv
<1>4. \A m \in net' : Awaited(m)'
  BY <1>1, Awaiting DEF DeliveryInv
<1>5. \A j \in Jobs : Truthful(j)'
  BY Telling DEF DeliveryInv
<1>6. Answered'
  BY Answering DEF DeliveryInv, Answered
<1> QED
  BY <1>1, <1>2, <1>3, <1>4, <1>5, <1>6 DEF DeliveryInv, Answered

\* The invariant of scanner pods, network and serve process together: a pod waits
\* for what it sent and hears the truth of it (postResults, main.go:194).
THEOREM DeliveryInvariant == Spec => []DeliveryInv
BY DeliveryInit, DeliveryStep, PTL DEF Spec

LEMMA DeliveredStep ==
  ASSUME DeliveryInv, CompleteIsDelivered, [Next]_vars
  PROVE  CompleteIsDelivered'
<1> SUFFICES ASSUME NEW i \in Jobs, job'[i] = "complete"
             PROVE  \E p \in stored' : p.from = Sender(i)' /\ p.whole
  BY DEF CompleteIsDelivered
<1>1. CASE job[i] = "complete" /\ attempt'[i] = attempt[i] /\ stored \subseteq stored'
  <2>1. PICK p \in stored : p.from = Sender(i) /\ p.whole
    BY <1>1 DEF CompleteIsDelivered
  <2> QED
    BY <1>1, <2>1 DEF Sender
<1>2. ASSUME NEW j \in Jobs, Steps(j)
      PROVE  \E p \in stored' : p.from = Sender(i)' /\ p.whole
  <2>1. UNCHANGED stored
    BY <1>2, ServerStays
  <2>2. CASE i # j
    BY <1>1, <1>2, <2>1, <2>2, OthersStay DEF DeliveryInv
  <2>3. CASE i = j /\ job[i] = "complete"
    <3>1. pc[j] = "exited"
      BY <2>3 DEF DeliveryInv, Ended
    <3>2. attempt' = attempt
      BY <1>2, <3>1, OwnPlace DEF DeliveryInv
    <3> QED
      BY <1>1, <2>1, <2>3, <3>2
  <2>4. CASE i = j /\ job[i] # "complete"
    <3>1. ReceiveAnswer(j) /\ pc[j] = "posting" /\ Accepted(j) /\ Clean(j)
      BY <1>2, <2>4
         DEF Steps, Start, Terminate, Kill, Pod, RunReturns, RunFails, RunEnds, Sends,
             Report, Post, Send, NotSent, Hears, ReceiveAnswer, NoAnswer, Ends,
             DeliveryInv, TypeOK
    <3>2. PICK p \in stored : p.from = Sender(j) /\ p.whole = batch[j].whole
      BY <3>1 DEF DeliveryInv, Truthful, Accepted
    <3>3. attempt' = attempt
      BY <3>1 DEF ReceiveAnswer, Ends
    <3> QED
      BY <2>1, <2>4, <3>1, <3>2, <3>3 DEF Sender, Clean
  <2> QED
    BY <2>2, <2>3, <2>4
<1>3. CASE UNCHANGED podVars /\ stored \subseteq stored'
  BY <1>1, <1>3 DEF podVars
<1> QED
  BY <1>2, <1>3
     DEF Next, Steps, Handle, Refuse, RecordFailure, SaveResults, Lose, Crash, Restart,
         Quiet, vars, history

\* Complete means delivered: the exit status zero needs the answer 201 to results
\* without repoErrs (runScan, main.go:159 and :173).
THEOREM CompleteJobsDelivered == Spec => []CompleteIsDelivered
<1>1. Init => CompleteIsDelivered
  BY DEF Init, CompleteIsDelivered
<1>2. DeliveryInv /\ CompleteIsDelivered /\ [Next]_vars => CompleteIsDelivered'
  BY DeliveredStep
<1> QED
  BY <1>1, <1>2, DeliveryInvariant, PTL DEF Spec

-----------------------------------------------------------------------------
(* What is on show.                                                         *)

LEMMA ShownStep ==
  ASSUME DeliveryInv, AckedIsOnShow, [Next]_vars
  PROVE  AckedIsOnShow'
<1> SUFFICES ASSUME crashes' = 0, NEW sender \in acked'
             PROVE  OnShow(sender)'
  BY DEF AckedIsOnShow
<1>1. CASE crashes = 0 /\ sender \in acked /\ UNCHANGED store /\ givenUp \subseteq givenUp'
  BY <1>1, ShownStays DEF AckedIsOnShow
<1>2. ASSUME NEW j \in Jobs, Steps(j)
      PROVE  OnShow(sender)'
  <2>1. UNCHANGED <<store, crashes>> /\ givenUp \subseteq givenUp'
    BY <1>2, ServerStays
  <2>2. CASE sender \notin acked
    <3>1. ReceiveAnswer(j) /\ pc[j] = "posting" /\ answer[j] = "created"
          /\ sender = Sender(j)
      BY <1>2, <2>2
         DEF Steps, Start, Terminate, Kill, Pod, RunReturns, RunFails, RunEnds, Sends,
             Report, Post, Send, NotSent, Hears, ReceiveAnswer, NoAnswer, history
    <3>2. OnShow(Sender(j))
      BY <2>1, <3>1 DEF DeliveryInv, Truthful
    <3> QED
      BY <2>1, <3>1, <3>2, ShownStays
  <2> QED
    BY <1>1, <2>1, <2>2
<1>3. ASSUME NEW m \in net, SaveResults(m)
      PROVE  OnShow(sender)'
  <2>1. sender \in acked
    BY <1>3 DEF SaveResults
  <2>2. sender \in Jobs \X Nat /\ sender[2] <= attempt[sender[1]]
    BY <2>1 DEF DeliveryInv, TypeOK, Senders
  <2> QED
    BY <1>3, <2>2, SavedIsOnShow DEF DeliveryInv
<1>4. CASE ~Crash
  BY <1>1, <1>2, <1>3, <1>4
     DEF Next, Steps, Handle, Refuse, RecordFailure, Lose, Restart, Quiet, vars,
         serverVars, history
<1>5. CASE Crash
  BY <1>5 DEF Crash, DeliveryInv, TypeOK
<1> QED
  BY <1>4, <1>5

\* No report of a failed run and no late post takes what a pod was answered 201
\* for off the dashboard (StoreResults, service.go:118).
THEOREM AckedStaysOnShow == Spec => []AckedIsOnShow
<1>1. Init => AckedIsOnShow
  BY DEF Init, AckedIsOnShow
<1>2. DeliveryInv /\ AckedIsOnShow /\ [Next]_vars => AckedIsOnShow'
  BY ShownStep
<1> QED
  BY <1>1, <1>2, DeliveryInvariant, PTL DEF Spec

LEMMA OlderStep ==
  ASSUME DeliveryInv, [Next]_vars, NEW old \in store, NEW new \in store',
         new.from[1] = old.from[1], new.at < old.at
  PROVE  new.from \in givenUp
<1>1. old.at \in Nat
  BY SentTypes DEF DeliveryInv
<1>2. ASSUME NEW m \in net, SaveResults(m)
      PROVE  new.from \in givenUp
  <2>1. new.from = m.from /\ new.at = m.at
    BY <1>2 DEF SaveResults
  <2>2. CASE m.from \notin givenUp
    <3> DEFINE j == m.from[1]
    <3>1. m.from = Sender(j) /\ pc[j] = "posting" /\ m.status = "success"
      BY <1>2, <2>2 DEF DeliveryInv, Awaited, SaveResults, Waiting
    <3>2. m.at = batch[j].at
      BY <3>1 DEF DeliveryInv, Placed, Waiting
    <3>3. old.from[2] <= attempt[j] /\ Placed(old)
      BY <2>1 DEF DeliveryInv, Placed
    <3>4. old.from[2] \in Nat /\ attempt[j] \in Nat /\ batch[j].at \in Nat
          /\ old.from = <<j, old.from[2]>>
      BY <2>1, SentTypes DEF DeliveryInv, TypeOK
    <3>5. old.at <= batch[j].at
      <4>1. CASE old.from[2] = attempt[j]
        BY <1>1, <2>1, <3>1, <3>3, <3>4, <4>1 DEF Placed, Sender, Waiting
      <4>2. CASE old.from[2] < attempt[j]
        BY <1>1, <2>1, <3>1, <3>3, <3>4, <4>2 DEF Placed
      <4> QED
        BY <3>3, <3>4, <4>1, <4>2
    <3> QED
      BY <1>1, <2>1, <3>2, <3>4, <3>5
  <2> QED
    BY <2>1, <2>2
<1>3. CASE store' \subseteq store
  <2>1. \A p \in store, q \in store : p = q
    BY DEF DeliveryInv, Latest
  <2> QED
    BY <1>1, <1>3, <2>1
<1> QED
  BY <1>2, <1>3, ServerStays
     DEF Next, Steps, Handle, Refuse, RecordFailure, Lose, Crash, Restart, Quiet, vars,
         serverVars

\* The results of a Job on show go back in time only for a pod that had given up
\* waiting: postResults returns before the pod can exit (main.go:218).
THEOREM OlderOnlyAfterGivingUp == Spec => OlderOnlyIfGivenUp
<1>1. DeliveryInv /\ [Next]_vars =>
        [\A old \in store, new \in store' :
           new.from[1] = old.from[1] /\ new.at < old.at => new.from \in givenUp]_vars
  BY OlderStep
<1> QED
  BY <1>1, DeliveryInvariant, PTL DEF Spec, OlderOnlyIfGivenUp
=============================================================================
