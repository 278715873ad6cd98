---------------------------- MODULE LauncherProofs ----------------------------
(***************************************************************************)
(* Proofs about ProcessLauncher.                                             *)
(*                                                                           *)
(* A program is known by the token of its QbsProcess, and the next program    *)
(* of the same QbsProcess has the same token.  That nothing that belongs to   *)
(* one of them reaches the other is an invariant of the packets on their way  *)
(* to the launcher (PipeInv), of what the launcher runs (ProgramInv) and of   *)
(* the answers on their way back (AnswerInv), tied together by TokenInv: the  *)
(* current program is in one of these places at most.                        *)
(***************************************************************************)
EXTENDS ProcessLauncher, Queues, FiniteSetTheorems

(***************************************************************************)
(* The inductive invariant                                                   *)
(***************************************************************************)
\* The packets that the launcher is going to read: those that were written, and those that
\* handleRequests() will write when it is called.  Requests for which no call is due are not
\* among them, whether they are ever sent or not.
Pipe == IF launcher # "up" THEN <<>> ELSE IF posted THEN toLauncher \o requests ELSE toLauncher

\* The packets and answers of one build, and those of earlier programs.
Starts(b) == {p \in Packet : p.type = "start" /\ p.build = b}
Stops(b) == {p \in Packet : p.type = "stop" /\ p.build = b}
OldStarts(b) == {p \in Starts(b) : p.n # process[b].n}
OldStops(b) == {p \in Stops(b) : p.n # process[b].n}
Answers(b) == {a \in Answer : a.build = b}
OldAnswers(b) == {a \in Answer : a.build # b \/ a.n # process[b].n}

\* At most one start of a build is on its way, that of the current program.  Stops of earlier
\* programs may be on their way too, but only before it; and all of them are of programs that
\* somebody wanted to stop.
PipeInv(b) ==
    /\ One(Pipe, Starts(b)) /\ None(Pipe, OldStarts(b))
    /\ Before(Pipe, OldStops(b), Starts(b))
    /\ None(Pipe, {p \in Stops(b) : <<b, p.n>> \notin stopped})

\* The launcher runs the current program, and no stop of an earlier one can reach it any more.
\* The stop procedure is that of a program that somebody wanted to stop.
ProgramInv(b) ==
    /\ programs[b].n # 0 => programs[b].n = process[b].n /\ None(Pipe, OldStops(b))
    /\ programs[b].n = 0 => programs[b].stop = "Inactive"
    /\ programs[b].stop # "Inactive" => <<b, programs[b].n>> \in stopped

\* At most one answer is on its way at each stage, and it is for the current program.
AnswerInv(b) ==
    /\ One(toQbs, Answers(b)) /\ None(toQbs, Answers(b) \cap OldAnswers(b))
    /\ One(inbox[b], Answer) /\ None(inbox[b], OldAnswers(b))

\* Where the current program of a build is: its start has been sent, it runs, its end has been
\* reported to qbs, or to its QbsProcess.
Asked(b) == ~None(Pipe, Starts(b))
Runs(b) == programs[b].n # 0
Answered(b) == ~None(toQbs, Answers(b))
Told(b) == ~None(inbox[b], Answer)

\* It is in one of these places at most, and only while the QbsProcess waits for it.
TokenInv(b) ==
    /\ Asked(b) => ~Runs(b) /\ ~Answered(b) /\ ~Told(b)
    /\ Runs(b) => ~Answered(b) /\ ~Told(b)
    /\ Answered(b) => ~Told(b)
    /\ Asked(b) \/ Runs(b) \/ Answered(b) \/ Told(b) => process[b].state = "Running"

\* The launcher, the connection and the builds that need them.
ConnectionInv ==
    /\ launcher = "up" => socket
    /\ launcher \in {"none", "starting"} => ~socket
    /\ launcher # "up" => toLauncher = <<>> /\ programs = NoPrograms
    /\ launcher = "up" => None(toQbs, {[type |-> "closed"]})
    /\ OnlyLast(toQbs, [type |-> "closed"])
    /\ ~socket => toQbs = <<>>
    /\ startRequests = Cardinality(Running)
    /\ LauncherServesBuilds

\* A QbsProcess belongs to a running build, and is told that the connection is lost once and last.
BuildInv(b) ==
    /\ Pending(b) => b \in Running /\ process[b].n # 0
    /\ process[b].n <= starts
    /\ (b \notin Running \/ launcher = "starting") => inbox[b] = <<>>
    /\ socket => None(inbox[b], {[type |-> "socketError"]})
    /\ OnlyLast(inbox[b], [type |-> "socketError"])

\* What holds of the programs of a build.
ProgressInv(b) == PipeInv(b) /\ ProgramInv(b) /\ AnswerInv(b) /\ TokenInv(b)

\* The inductive invariant.
IInv == TypeOK /\ ConnectionInv /\ \A b \in Builds : BuildInv(b) /\ ProgressInv(b)

(***************************************************************************)
(* What a step does to the programs of one build                             *)
(***************************************************************************)
\* What the types say of the queues, and of the pipe.
LEMMA QueueTypes ==
  ASSUME TypeOK
  PROVE  /\ Pipe \in Seq(Packet) /\ requests \in Seq(Packet) /\ toLauncher \in Seq(Packet)
         /\ toQbs \in Seq([type : {"closed"}] \cup Answer)
         /\ \A b \in Builds : inbox[b] \in Seq([type : {"ready", "socketError"}] \cup Answer)
BY JoinedQueues DEF TypeOK, Pipe

\* The same after a step.
LEMMA QueueTypesNext ==
  ASSUME TypeOK'
  PROVE  /\ Pipe' \in Seq(Packet)
         /\ toQbs' \in Seq([type : {"closed"}] \cup Answer)
         /\ \A b \in Builds : inbox'[b] \in Seq([type : {"ready", "socketError"}] \cup Answer)
BY JoinedQueues DEF TypeOK, Pipe

\* The Boolean variables, one by one.
LEMMA FlagTypes ==
  ASSUME TypeOK
  PROVE  server \in BOOLEAN /\ socket \in BOOLEAN /\ posted \in BOOLEAN /\ noticed \in BOOLEAN
BY DEF TypeOK

\* A step after which there is nothing new on its way keeps ProgressInv(c), if the QbsProcess
\* still waits for what is left.
LEMMA KeepsProgress ==
  ASSUME TypeOK, TypeOK', NEW c \in Builds, ProgressInv(c),
         PartOf(Pipe', Pipe, Starts(c) \cup Stops(c)), PartOf(toQbs', toQbs, Answers(c)),
         PartOf(inbox'[c], inbox[c], Answer),
         programs'[c] = programs[c] \/ programs'[c] = NoProgram,
         process'[c].n = process[c].n, stopped \subseteq stopped',
         (Asked(c) \/ Runs(c) \/ Answered(c) \/ Told(c))' => process'[c].state = "Running"
  PROVE  ProgressInv(c)'
<1> DEFINE unasked == {p \in Stops(c) : <<c, p.n>> \notin stopped}
<1>1. /\ OldStarts(c)' = OldStarts(c) /\ OldStops(c)' = OldStops(c)
      /\ OldAnswers(c)' = OldAnswers(c) /\ unasked' \subseteq unasked
  BY DEF OldStarts, OldStops, OldAnswers
<1>2. /\ Starts(c) \subseteq Starts(c) \cup Stops(c) /\ OldStarts(c) \subseteq Starts(c) \cup Stops(c)
      /\ OldStops(c) \subseteq Starts(c) \cup Stops(c) /\ unasked \subseteq Starts(c) \cup Stops(c)
      /\ Answers(c) \cap OldAnswers(c) \subseteq Answers(c) /\ OldAnswers(c) \subseteq Answer
  BY DEF OldStarts, OldStops, OldAnswers
<1>3. /\ None(Pipe, Starts(c)) => None(Pipe', Starts(c))
      /\ One(Pipe, Starts(c)) => One(Pipe', Starts(c))
      /\ None(Pipe, OldStarts(c)) => None(Pipe', OldStarts(c))
      /\ None(Pipe, OldStops(c)) => None(Pipe', OldStops(c))
      /\ None(Pipe, unasked) => None(Pipe', unasked)
      /\ Before(Pipe, OldStops(c), Starts(c)) => Before(Pipe', OldStops(c), Starts(c))
  <2> HIDE DEF unasked
  <2> QED
    BY <1>2, QueueTypes, QueueTypesNext, PartKeeps
<1>4. /\ None(toQbs, Answers(c)) => None(toQbs', Answers(c))
      /\ One(toQbs, Answers(c)) => One(toQbs', Answers(c))
      /\ None(toQbs, Answers(c) \cap OldAnswers(c)) => None(toQbs', Answers(c) \cap OldAnswers(c))
  BY <1>2, QueueTypes, QueueTypesNext, PartKeeps
<1>5. /\ None(inbox[c], Answer) => None(inbox'[c], Answer)
      /\ One(inbox[c], Answer) => One(inbox'[c], Answer)
      /\ None(inbox[c], OldAnswers(c)) => None(inbox'[c], OldAnswers(c))
  BY <1>2, QueueTypes, QueueTypesNext, PartKeeps
<1>6. None(Pipe', unasked) => None(Pipe', unasked')
  BY <1>1 DEF None
<1>7. PipeInv(c)'
  BY <1>1, <1>3, <1>6 DEF ProgressInv, PipeInv, Starts, Stops
<1>8. ProgramInv(c)'
  BY <1>1, <1>3 DEF ProgressInv, ProgramInv, NoProgram
<1>9. AnswerInv(c)'
  BY <1>1, <1>4, <1>5 DEF ProgressInv, AnswerInv, Answers
<1>10. TokenInv(c)'
  BY <1>3, <1>4, <1>5 DEF ProgressInv, TokenInv, Asked, Runs, Answered, Told, NoProgram, Starts, Answers
<1> QED
  BY <1>7, <1>8, <1>9, <1>10 DEF ProgressInv

\* The stop procedure of a program that somebody wanted to stop goes on.
LEMMA StoppingMove ==
  ASSUME TypeOK, TypeOK', NEW b \in Builds, ProgressInv(b), Runs(b),
         <<b, programs[b].n>> \in stopped, programs'[b].n = programs[b].n,
         PartOf(Pipe', Pipe, Starts(b) \cup Stops(b)), UNCHANGED <<toQbs, inbox, process, stopped>>
  PROVE  ProgressInv(b)'
<1> DEFINE unasked == {q \in Stops(b) : <<b, q.n>> \notin stopped}
<1>1. OldStarts(b)' = OldStarts(b) /\ OldStops(b)' = OldStops(b) /\ OldAnswers(b)' = OldAnswers(b)
      /\ unasked' = unasked
  BY DEF OldStarts, OldStops, OldAnswers, Starts, Stops
<1>2. /\ Starts(b) \subseteq Starts(b) \cup Stops(b) /\ OldStarts(b) \subseteq Starts(b) \cup Stops(b)
      /\ OldStops(b) \subseteq Starts(b) \cup Stops(b) /\ unasked \subseteq Starts(b) \cup Stops(b)
  BY DEF OldStarts, OldStops
<1>3. programs[b].n # 0 /\ programs[b].n = process[b].n /\ None(Pipe, OldStops(b)) /\ None(Pipe, Starts(b))
  BY DEF Runs, ProgressInv, ProgramInv, TokenInv, Asked
<1> HIDE DEF unasked
<1>4. /\ None(Pipe', Starts(b)) /\ None(Pipe', OldStarts(b)) /\ One(Pipe', Starts(b))
      /\ Before(Pipe', OldStops(b), Starts(b)) /\ None(Pipe', unasked) /\ None(Pipe', OldStops(b))
  BY <1>2, <1>3, QueueTypes, QueueTypesNext, PartKeeps DEF ProgressInv, PipeInv, unasked
<1>5. PipeInv(b)'
  BY <1>1, <1>4 DEF PipeInv, Starts, unasked
<1>6. ProgramInv(b)'
  BY <1>1, <1>3, <1>4 DEF ProgramInv
<1>7. AnswerInv(b)'
  BY <1>1 DEF ProgressInv, AnswerInv, Answers
<1>8. TokenInv(b)'
  BY <1>4 DEF ProgressInv, TokenInv, Asked, Runs, Answered, Told, Starts, Answers
<1> QED
  BY <1>5, <1>6, <1>7, <1>8 DEF ProgressInv

\* A QbsProcess that waits for nothing begins its next program, and may ask for it.
LEMMA AskMove ==
  ASSUME TypeOK, TypeOK', NEW b \in Builds, ProgressInv(b), NEW n \in 1 .. MaxPrograms,
         process[b].state # "Running", process'[b].n = n,
         \/ Pipe' = Pipe
         \/ Pipe' = Append(Pipe, StartPacket(b, n)) /\ process'[b].state = "Running",
         PartOf(inbox'[b], inbox[b], Answer), UNCHANGED <<programs, toQbs, stopped>>
  PROVE  ProgressInv(b)'
<1> DEFINE p == StartPacket(b, n)
           unasked == {q \in Stops(b) : <<b, q.n>> \notin stopped}
<1>1. /\ None(Pipe, Starts(b)) /\ programs[b].n = 0 /\ None(toQbs, Answers(b))
      /\ None(inbox[b], Answer)
  BY DEF ProgressInv, TokenInv, Asked, Runs, Answered, Told
<1>2. p \in Packet /\ p \in Starts(b) /\ p \notin Stops(b) /\ p.n = n
  BY DEF StartPacket, Packet, Starts, Stops
<1>3. p \notin OldStarts(b)' /\ p \notin OldStops(b)' /\ p \notin unasked
  BY <1>2 DEF OldStarts, OldStops
<1>4. None(inbox'[b], Answer)
  BY <1>1, QueueTypes, QueueTypesNext, PartKeeps
<1>5. OldStarts(b)' \subseteq Starts(b) /\ OldAnswers(b)' \subseteq Answer
  BY DEF OldStarts, OldAnswers, Starts
<1>6. None(Pipe, OldStarts(b)') /\ One(Pipe, Starts(b)) /\ Before(Pipe, OldStops(b)', Starts(b))
      /\ None(Pipe, unasked)
  BY <1>1, <1>5, QueueTypes, OrderOfQueue DEF None, One, ProgressInv, PipeInv
<1> HIDE DEF p, unasked
<1>7. /\ One(Pipe', Starts(b)) /\ None(Pipe', OldStarts(b)')
      /\ Before(Pipe', OldStops(b)', Starts(b)) /\ None(Pipe', unasked)
  <2>1. CASE Pipe' = Pipe
    BY <1>6, <2>1
  <2>2. CASE Pipe' = Append(Pipe, p)
    BY <1>1, <1>2, <1>3, <1>6, <2>2, QueueTypes, AppendToQueue, OrderOfQueue
  <2> QED
    BY <2>1, <2>2 DEF p
<1>8. PipeInv(b)'
  BY <1>7 DEF PipeInv, Starts, Stops, unasked
<1>9. ProgramInv(b)'
  BY <1>1 DEF ProgressInv, ProgramInv
<1>10. AnswerInv(b)'
  <2>1. /\ One(toQbs, Answers(b)) /\ None(toQbs, Answers(b) \cap OldAnswers(b)')
        /\ One(inbox'[b], Answer) /\ None(inbox'[b], OldAnswers(b)')
    BY <1>1, <1>4, <1>5 DEF One, None
  <2> QED
    BY <2>1 DEF AnswerInv, Answers
<1>11. TokenInv(b)'
  BY <1>1, <1>4 DEF TokenInv, Asked, Runs, Answered, Told, Answers, Starts
<1> QED
  BY <1>8, <1>9, <1>10, <1>11 DEF ProgressInv

\* A QbsProcess asks to stop its program.
LEMMA StopMove ==
  ASSUME TypeOK, TypeOK', NEW b \in Builds, ProgressInv(b), process[b].n # 0,
         Pipe' = Pipe \/ Pipe' = Append(Pipe, StopPacket(b, process[b].n)),
         stopped' = stopped \cup {<<b, process[b].n>>},
         UNCHANGED <<process, programs, toQbs, inbox>>
  PROVE  ProgressInv(b)'
<1> DEFINE p == StopPacket(b, process[b].n)
           unasked == {q \in Stops(b) : <<b, q.n>> \notin stopped}
<1>1. /\ p \in Packet /\ p \notin Starts(b) /\ p \notin OldStarts(b) /\ p \notin OldStops(b)
      /\ p \notin unasked'
  <2>1. process[b].n \in 1 .. MaxPrograms
    BY BoundsAssumption DEF TypeOK
  <2>2. p \in Packet /\ p.type = "stop" /\ p.n = process[b].n
    BY <2>1 DEF StopPacket, Packet
  <2> QED
    BY <2>2 DEF Starts, OldStarts, OldStops
<1>2. OldStarts(b)' = OldStarts(b) /\ OldStops(b)' = OldStops(b) /\ OldAnswers(b)' = OldAnswers(b)
  BY DEF OldStarts, OldStops, OldAnswers, Starts, Stops
<1>3. None(Pipe, unasked) => None(Pipe, unasked')
  BY DEF None, Stops
<1>4. None(Pipe, unasked)
  BY DEF ProgressInv, PipeInv
<1> HIDE DEF p, unasked
<1>5. /\ One(Pipe', Starts(b)) /\ None(Pipe', OldStarts(b))
      /\ Before(Pipe', OldStops(b), Starts(b)) /\ None(Pipe', unasked')
      /\ None(Pipe', Starts(b)) <=> None(Pipe, Starts(b))
      /\ None(Pipe', OldStops(b)) <=> None(Pipe, OldStops(b))
  <2>1. CASE Pipe' = Pipe
    BY <1>3, <1>4, <2>1 DEF ProgressInv, PipeInv
  <2>2. CASE Pipe' = Append(Pipe, p)
    BY <1>1, <1>3, <1>4, <2>2, QueueTypes, AppendToQueue, OrderOfQueue DEF ProgressInv, PipeInv
  <2> QED
    BY <2>1, <2>2 DEF p
<1>6. PipeInv(b)'
  BY <1>2, <1>5 DEF PipeInv, Starts, unasked
<1>7. ProgramInv(b)'
  BY <1>2, <1>5 DEF ProgressInv, ProgramInv
<1>8. AnswerInv(b)'
  BY <1>2 DEF ProgressInv, AnswerInv, Answers
<1>9. TokenInv(b)'
  BY <1>5 DEF ProgressInv, TokenInv, Asked, Runs, Answered, Told, Answers, Starts
<1> QED
  BY <1>6, <1>7, <1>8, <1>9 DEF ProgressInv

\* The launcher reads a start: the stops of earlier programs came before it, and the last program
\* has been answered for, so that nothing of this token is running.
LEMMA StartMove ==
  ASSUME TypeOK, TypeOK', NEW b \in Builds, ProgressInv(b), Pipe # <<>>, Head(Pipe) \in Starts(b),
         Pipe' = Tail(Pipe), programs[b].n = 0 => programs' = [programs EXCEPT ![b].n = Head(Pipe).n],
         UNCHANGED <<process, toQbs, inbox, stopped>>
  PROVE  ProgressInv(b)'
<1> DEFINE unasked == {q \in Stops(b) : <<b, q.n>> \notin stopped}
<1>1. OldStarts(b)' = OldStarts(b) /\ OldStops(b)' = OldStops(b) /\ OldAnswers(b)' = OldAnswers(b)
      /\ unasked' = unasked
  BY DEF OldStarts, OldStops, OldAnswers, Starts, Stops
<1>2. Asked(b) /\ Head(Pipe) \notin OldStarts(b)
  BY QueueTypes, TakeFromQueue DEF Asked, ProgressInv, PipeInv
<1>3. /\ programs[b].n = 0 /\ programs[b].stop = "Inactive" /\ None(toQbs, Answers(b))
      /\ None(inbox[b], Answer) /\ process[b].state = "Running" /\ Head(Pipe).n = process[b].n
  BY <1>2 DEF ProgressInv, TokenInv, ProgramInv, Runs, Answered, Told, OldStarts
<1>4. programs'[b].n = process[b].n /\ programs'[b].stop = "Inactive"
  BY <1>3 DEF TypeOK
<1> HIDE DEF unasked
<1>5. None(Pipe', Starts(b)) /\ None(Pipe', OldStarts(b)) /\ None(Pipe', OldStops(b))
      /\ None(Pipe', unasked)
  <2>1. None(Pipe, OldStops(b))
    BY QueueTypes, OrderOfQueue DEF ProgressInv, PipeInv
  <2> QED
    BY <2>1, QueueTypes, TakeFromQueue DEF ProgressInv, PipeInv, unasked
<1>6. PipeInv(b)'
  BY <1>1, <1>5 DEF PipeInv, One, Before, None, Starts, unasked
<1>7. ProgramInv(b)'
  BY <1>1, <1>4, <1>5 DEF ProgramInv
<1>8. AnswerInv(b)'
  BY <1>1 DEF ProgressInv, AnswerInv, Answers
<1>9. TokenInv(b)'
  BY <1>3, <1>5 DEF TokenInv, Asked, Runs, Answered, Told, Answers, Starts
<1> QED
  BY <1>6, <1>7, <1>8, <1>9 DEF ProgressInv

\* A program ends, and the launcher reports it.
LEMMA EndMove ==
  ASSUME TypeOK, TypeOK', NEW b \in Builds, ProgressInv(b), Runs(b),
         PartOf(Pipe', Pipe, Starts(b) \cup Stops(b)), programs'[b] = NoProgram,
         NEW type \in {"error", "finished"}, toQbs' = Reply(type, b),
         UNCHANGED <<process, inbox, stopped>>
  PROVE  ProgressInv(b)'
<1> DEFINE a == [type |-> type, build |-> b, n |-> programs[b].n]
           unasked == {q \in Stops(b) : <<b, q.n>> \notin stopped}
<1>1. OldStarts(b)' = OldStarts(b) /\ OldStops(b)' = OldStops(b) /\ OldAnswers(b)' = OldAnswers(b)
      /\ unasked' = unasked
  BY DEF OldStarts, OldStops, OldAnswers, Starts, Stops
<1>2. /\ programs[b].n = process[b].n /\ process[b].state = "Running" /\ None(Pipe, Starts(b))
      /\ None(toQbs, Answers(b)) /\ None(inbox[b], Answer)
  BY DEF ProgressInv, TokenInv, ProgramInv, Runs, Asked, Answered, Told
<1>3. a \in Answer /\ a \in Answers(b) /\ a \notin OldAnswers(b)
  <2>1. programs[b].n \in 1 .. MaxPrograms
    <3>1. programs[b].n \in 0 .. MaxPrograms /\ MaxPrograms \in Nat /\ programs[b].n # 0
      BY BoundsAssumption DEF TypeOK, Runs
    <3> QED
      BY <3>1
  <2> QED
    BY <1>2, <2>1 DEF Answer, Answers, OldAnswers
<1>4. toQbs' = Append(toQbs, a)
  BY DEF Reply
<1> HIDE DEF a, unasked
<1>5. /\ None(Pipe', Starts(b)) /\ None(Pipe', OldStarts(b)) /\ One(Pipe', Starts(b))
      /\ Before(Pipe', OldStops(b), Starts(b)) /\ None(Pipe', unasked)
  <2>1. /\ Starts(b) \subseteq Starts(b) \cup Stops(b) /\ OldStarts(b) \subseteq Starts(b) \cup Stops(b)
        /\ OldStops(b) \subseteq Starts(b) \cup Stops(b) /\ unasked \subseteq Starts(b) \cup Stops(b)
    BY DEF OldStarts, OldStops, unasked
  <2> QED
    BY <1>2, <2>1, QueueTypes, QueueTypesNext, PartKeeps DEF ProgressInv, PipeInv, unasked
<1>6. One(toQbs', Answers(b)) /\ None(toQbs', Answers(b) \cap OldAnswers(b))
  <2>1. /\ toQbs \in Seq([type : {"closed"}] \cup Answer) /\ a \in [type : {"closed"}] \cup Answer
        /\ One(toQbs, Answers(b)) /\ None(toQbs, Answers(b) \cap OldAnswers(b))
        /\ a \notin Answers(b) \cap OldAnswers(b)
    BY <1>3, QueueTypes DEF ProgressInv, AnswerInv
  <2> QED
    BY <1>2, <1>4, <2>1, AppendToQueue
<1>7. PipeInv(b)'
  BY <1>1, <1>5 DEF PipeInv, Starts, unasked
<1>8. ProgramInv(b)'
  BY DEF ProgramInv, NoProgram
<1>9. AnswerInv(b)'
  BY <1>1, <1>6 DEF ProgressInv, AnswerInv, Answers
<1>10. TokenInv(b)'
  BY <1>2, <1>5 DEF TokenInv, Asked, Runs, Answered, Told, Starts, NoProgram
<1> QED
  BY <1>7, <1>8, <1>9, <1>10 DEF ProgressInv

\* The main thread passes the answer on to the QbsProcess.
LEMMA AnswerMove ==
  ASSUME TypeOK, TypeOK', NEW b \in Builds, ProgressInv(b), toQbs # <<>>, Head(toQbs) \in Answers(b),
         toQbs' = Tail(toQbs), inbox'[b] = Append(inbox[b], Head(toQbs)),
         Pipe' = Pipe, UNCHANGED <<process, programs, stopped>>
  PROVE  ProgressInv(b)'
<1>1. OldStarts(b)' = OldStarts(b) /\ OldStops(b)' = OldStops(b) /\ OldAnswers(b)' = OldAnswers(b)
  BY DEF OldStarts, OldStops, OldAnswers, Starts, Stops
<1>2. Answered(b) /\ Head(toQbs) \notin Answers(b) \cap OldAnswers(b)
  BY QueueTypes, TakeFromQueue DEF Answered, ProgressInv, AnswerInv
<1>3. /\ programs[b].n = 0 /\ None(Pipe, Starts(b)) /\ None(inbox[b], Answer)
      /\ process[b].state = "Running" /\ Head(toQbs) \in Answer /\ Head(toQbs) \notin OldAnswers(b)
  BY <1>2 DEF ProgressInv, TokenInv, Asked, Runs, Told, Answers
<1>4. /\ None(toQbs', Answers(b)) /\ One(toQbs', Answers(b))
      /\ None(toQbs', Answers(b) \cap OldAnswers(b))
  BY QueueTypes, TakeFromQueue DEF ProgressInv, AnswerInv
<1>5. One(inbox'[b], Answer) /\ None(inbox'[b], OldAnswers(b))
  <2>1. /\ inbox[b] \in Seq([type : {"ready", "socketError"}] \cup Answer)
        /\ Head(toQbs) \in [type : {"ready", "socketError"}] \cup Answer
        /\ One(inbox[b], Answer) /\ None(inbox[b], OldAnswers(b))
    BY <1>3, QueueTypes DEF ProgressInv, AnswerInv
  <2> QED
    BY <1>3, <2>1, AppendToQueue
<1>6. PipeInv(b)'
  BY <1>1 DEF ProgressInv, PipeInv, Starts, Stops
<1>7. ProgramInv(b)'
  BY <1>3 DEF ProgressInv, ProgramInv
<1>8. AnswerInv(b)'
  BY <1>1, <1>4, <1>5 DEF AnswerInv, Answers
<1>9. TokenInv(b)'
  BY <1>3, <1>4 DEF TokenInv, Asked, Runs, Answered, Told, Starts, Answers
<1> QED
  BY <1>6, <1>7, <1>8, <1>9 DEF ProgressInv

\* A step that takes packets, answers and programs away, or adds those of other builds.
LEMMA FewerMove ==
  ASSUME TypeOK, TypeOK', NEW c \in Builds, ProgressInv(c),
         PartOf(Pipe', Pipe, Starts(c) \cup Stops(c)), PartOf(toQbs', toQbs, Answers(c)),
         PartOf(inbox'[c], inbox[c], Answer),
         programs'[c] = programs[c] \/ programs'[c] = NoProgram,
         process'[c].n = process[c].n, process'[c].state = process[c].state,
         stopped \subseteq stopped'
  PROVE  ProgressInv(c)'
<1>1. Answers(c)' = Answers(c) /\ Starts(c)' = Starts(c)
  BY DEF Answers, Starts
<1>2. (Told(c)' => Told(c)) /\ (Asked(c)' => Asked(c)) /\ (Answered(c)' => Answered(c))
  <2>1. None(Pipe, Starts(c)) => None(Pipe', Starts(c))
    <3>1. Starts(c) \subseteq Starts(c) \cup Stops(c)
      OBVIOUS
    <3> QED
      BY <3>1, QueueTypes, QueueTypesNext, PartKeeps
  <2>2. None(toQbs, Answers(c)) => None(toQbs', Answers(c))
    BY QueueTypes, QueueTypesNext, PartKeeps
  <2>3. None(inbox[c], Answer) => None(inbox'[c], Answer)
    BY QueueTypes, QueueTypesNext, PartKeeps
  <2> QED
    BY <1>1, <2>1, <2>2, <2>3 DEF Answered, Told, Asked
<1>3. Runs(c)' => Runs(c)
  BY DEF Runs, NoProgram
<1>4. (Asked(c) \/ Runs(c) \/ Answered(c) \/ Told(c))' => process'[c].state = "Running"
  BY <1>2, <1>3 DEF ProgressInv, TokenInv
<1> QED
  BY <1>4, KeepsProgress

\* A step that does not concern the launcher.
LEMMA QuietMove ==
  ASSUME TypeOK, TypeOK', NEW c \in Builds, ProgressInv(c), Pipe' = Pipe,
         PartOf(inbox'[c], inbox[c], Answer), process'[c] = process[c],
         UNCHANGED <<toQbs, programs, stopped>>
  PROVE  ProgressInv(c)'
<1>1. PartOf(Pipe', Pipe, Starts(c) \cup Stops(c)) /\ PartOf(toQbs', toQbs, Answers(c))
  BY QueueTypes, PartOfQueue
<1> QED
  BY <1>1, FewerMove

(***************************************************************************)
(* The main thread                                                           *)
(***************************************************************************)
\* LauncherInterface::m_startRequests is 0 or 1 exactly if no or one build is running.
LEMMA BuildsCounted ==
  ASSUME IInv
  PROVE  /\ IsFiniteSet(Running) /\ Cardinality(Running) \in Nat
         /\ startRequests = 0 <=> Running = {}
         /\ \A b \in Running : startRequests = 1 <=> Running = {b}
<1>1. IsFiniteSet(Running)
  BY BuildsAssumption, FS_Subset DEF Running
<1>2. Cardinality(Running) \in Nat /\ (Cardinality(Running) = 0 <=> Running = {})
  BY <1>1, FS_CardinalityType, FS_EmptySet
<1>3. ASSUME NEW b \in Running
      PROVE  Cardinality(Running) = 1 <=> Running = {b}
  BY <1>1, <1>3, FS_Singleton
<1> QED
  BY <1>1, <1>2, <1>3 DEF IInv, ConnectionInv

\* LauncherInterface::doStart()
LEMMA StartBuildStep ==
  ASSUME IInv, NEW b \in Builds, StartBuild(b)
  PROVE  IInv'
<1> USE DEF IInv
<1>1. /\ phase[b] = "new" /\ phase' = [phase EXCEPT ![b] = "running"]
      /\ startRequests' = startRequests + 1 /\ b \notin Running
      /\ UNCHANGED <<process, counters, stopped, inbox, socket, crashes, queueVars, launcherVars>>
  BY DEF StartBuild, Running
<1>2. /\ phase' \in [Builds -> {"new", "running", "done"}]
      /\ Running' = Running \cup {b}
  BY <1>1 DEF TypeOK, Running
<1>3. startRequests' = Cardinality(Running') /\ startRequests' \in 0 .. Cardinality(Builds)
  <2>1. Cardinality(Running') = Cardinality(Running) + 1
    BY <1>1, <1>2, BuildsCounted, FS_AddElement
  <2>2. Cardinality(Running') <= Cardinality(Builds) /\ Cardinality(Builds) \in Nat
    BY <1>2, BuildsAssumption, FS_Subset, FS_CardinalityType DEF Running
  <2> QED
    BY <1>1, <2>1, <2>2, BuildsCounted DEF ConnectionInv
<1>4. \/ startRequests # 0 /\ UNCHANGED <<server, launcher, noticed, canceled>>
      \/ /\ startRequests = 0 /\ launcher' \in {"starting", "dead"}
         /\ server' \in BOOLEAN /\ noticed' \in BOOLEAN
         /\ canceled' \in [Builds -> {"no", "requested", "done"}]
  <2>1. server \in BOOLEAN /\ canceled \in [Builds -> {"no", "requested", "done"}]
        /\ startRequests \in Nat
    BY FlagTypes, BuildsCounted DEF TypeOK, ConnectionInv
  <2>2. CASE startRequests > 0
    BY <2>1, <2>2 DEF StartBuild
  <2>3. CASE startRequests = 0
    <3>1. \/ /\ server' = TRUE /\ launcher' = "starting" /\ noticed' = FALSE /\ canceled' = canceled
          \/ /\ launcher' = "dead" /\ noticed' = TRUE /\ server' = server
             /\ canceled' = [canceled EXCEPT ![b] = "requested"]
      BY <2>3 DEF StartBuild
    <3>2. launcher' \in {"starting", "dead"} /\ canceled' \in [Builds -> {"no", "requested", "done"}]
      BY <2>1, <3>1
    <3>3. server' \in BOOLEAN /\ noticed' \in BOOLEAN
      BY <2>1, <3>1
    <3> QED
      BY <2>3, <3>2, <3>3
  <2> QED
    BY <2>1, <2>2, <2>3
<1>5. startRequests = 0 => /\ Running = {} /\ launcher = "none" /\ ~socket
                           /\ \A c \in Builds : inbox[c] = <<>>
  BY BuildsCounted DEF ConnectionInv, LauncherServesBuilds, BuildInv
<1>6. TypeOK'
  <2>1. {server, socket, posted, noticed}' \subseteq BOOLEAN
    BY <1>1, <1>4, FlagTypes DEF queueVars
  <2> QED
    BY <1>1, <1>2, <1>3, <1>4, <2>1 DEF TypeOK, counters, queueVars, launcherVars
<1>7. ConnectionInv'
  <2>1. LauncherServesBuilds'
    BY <1>2, <1>4, BuildsCounted DEF ConnectionInv, LauncherServesBuilds
  <2>2. CASE startRequests # 0
    BY <1>1, <1>3, <1>4, <2>1, <2>2 DEF ConnectionInv, launcherVars, NoPrograms
  <2>3. CASE startRequests = 0
    BY <1>1, <1>3, <1>4, <1>5, <2>1, <2>3 DEF ConnectionInv, launcherVars, NoPrograms
  <2> QED
    BY <2>2, <2>3
<1>8. Pipe' = Pipe
  BY <1>1, <1>4, <1>5 DEF Pipe, queueVars, launcherVars
<1>9. ASSUME NEW c \in Builds
      PROVE  BuildInv(c)' /\ ProgressInv(c)'
  <2>1. BuildInv(c)'
    BY <1>1, <1>2, <1>4, <1>5 DEF BuildInv, Pending, counters
  <2>2. ProgressInv(c)'
    BY <1>1, <1>6, <1>8, QuietMove, QueueTypes, PartOfQueue DEF launcherVars
  <2> QED
    BY <2>1, <2>2
<1> QED
  BY <1>6, <1>7, <1>9

\* A signal of LauncherSocket is no answer.
LEMMA EmitEffect ==
  ASSUME TypeOK, NEW signal \in {"ready", "socketError"}, Emit(signal)
  PROVE  /\ inbox' \in [Builds -> Seq([type : {"ready", "socketError"}] \cup Answer)]
         /\ \A c \in Builds :
               /\ inbox'[c] = IF c \in Running THEN Append(inbox[c], [type |-> signal]) ELSE inbox[c]
               /\ PartOf(inbox'[c], inbox[c], Answer)
<1> DEFINE T == [type : {"ready", "socketError"}] \cup Answer
           e == [type |-> signal]
<1>1. e \in T /\ e \notin Answer /\ \A c \in Builds : inbox[c] \in Seq(T)
  BY QueueTypes DEF Answer
<1>2. inbox' = [c \in Builds |-> IF c \in Running THEN Append(inbox[c], e) ELSE inbox[c]]
  BY DEF Emit
<1> HIDE DEF T, e
<1>3. \A c \in Builds : Append(inbox[c], e) \in Seq(T)
  BY <1>1, AppendToQueue
<1>4. inbox' \in [Builds -> Seq(T)]
  BY <1>1, <1>2, <1>3
<1>5. ASSUME NEW c \in Builds
      PROVE  PartOf(inbox'[c], inbox[c], Answer)
  BY <1>1, <1>2, PartOfQueue
<1> QED
  BY <1>2, <1>4, <1>5 DEF T, e

\* LauncherInterface::handleNewConnection()
LEMMA ConnectStep ==
  ASSUME IInv, LauncherConnects
  PROVE  IInv'
<1> USE DEF IInv
<1> DEFINE Signal == [type : {"ready", "socketError"}] \cup Answer
           ready == [type |-> "ready"]
<1>1. /\ launcher = "starting" /\ ~posted /\ launcher' = "up" /\ server' = FALSE /\ socket' = TRUE
      /\ UNCHANGED <<buildVars, startRequests, noticed, crashes, queueVars, launcherVars>>
      /\ \A c \in Builds : inbox[c] = <<>>
      /\ toQbs = <<>> /\ toLauncher = <<>> /\ Running' = Running
  BY DEF LauncherConnects, ConnectionInv, BuildInv, Running, buildVars
<1>2. ready \in Signal /\ ready \notin Answer /\ ready # [type |-> "socketError"]
  BY DEF Answer
<1>3. /\ inbox' \in [Builds -> Seq(Signal)]
      /\ \A c \in Builds : \/ inbox'[c] = <<>>
                           \/ c \in Running /\ inbox'[c] = Append(<<>>, ready)
  BY <1>1, EmitEffect DEF LauncherConnects
<1> HIDE DEF Signal, ready
<1>4. TypeOK'
  <2>1. {server, socket, posted, noticed}' \subseteq BOOLEAN
    BY <1>1, FlagTypes DEF queueVars
  <2> QED
    BY <1>1, <1>3, <2>1 DEF TypeOK, Signal, counters, buildVars, queueVars, launcherVars
<1>5. ConnectionInv'
  BY <1>1, EmptyQueue DEF ConnectionInv, LauncherServesBuilds, launcherVars, queueVars
<1>6. Pipe' = Pipe
  BY <1>1 DEF Pipe, queueVars, launcherVars
<1>7. ASSUME NEW c \in Builds
      PROVE  BuildInv(c)' /\ ProgressInv(c)'
  <2>1. <<>> \in Seq(Signal)
    OBVIOUS
  <2>2. None(inbox'[c], {[type |-> "socketError"]}) /\ PartOf(inbox'[c], inbox[c], Answer)
    <3>1. None(Append(<<>>, ready), {[type |-> "socketError"]})
      <4> DEFINE S == {[type |-> "socketError"]}
      <4>1. ready \notin S /\ ready \in Signal
        BY <1>2
      <4> HIDE DEF S
      <4>2. None(<<>>, S)
        BY EmptyQueue
      <4>3. None(Append(<<>>, ready), S)
        BY <2>1, <4>1, <4>2, AppendToQueue
      <4> QED
        BY <4>3 DEF S
    <3> QED
      BY <1>3, <3>1, EmptyQueue, EmitEffect DEF LauncherConnects
  <2>5. OnlyLast(inbox'[c], [type |-> "socketError"])
    BY <1>3, <2>2, LastOfQueue
  <2>3. BuildInv(c)'
    BY <1>1, <1>3, <2>2, <2>5 DEF BuildInv, Pending, counters, buildVars
  <2>4. ProgressInv(c)'
    BY <1>1, <1>4, <1>6, <2>2, QuietMove DEF launcherVars, buildVars
  <2> QED
    BY <2>3, <2>4
<1> QED
  BY <1>4, <1>5, <1>7

\* The steps that change nothing but who has been told to cancel and who has noticed what.
LEMMA NoticeStep ==
  ASSUME IInv, launcher' = launcher \/ (launcher = "starting" /\ launcher' = "dead"),
         noticed' \in BOOLEAN, canceled' \in [Builds -> {"no", "requested", "done"}],
         UNCHANGED <<phase, process, counters, stopped, inbox, startRequests, server, socket,
                     crashes, queueVars, launcherVars>>
  PROVE  IInv'
<1> USE DEF IInv
<1>1. Running' = Running
  BY DEF Running
<1>2. TypeOK'
  <2>1. {server, socket, posted, noticed}' \subseteq BOOLEAN
    BY FlagTypes DEF queueVars
  <2> QED
    BY <2>1 DEF TypeOK, counters, queueVars, launcherVars
<1>3. ConnectionInv'
  BY <1>1 DEF ConnectionInv, LauncherServesBuilds, launcherVars
<1>4. Pipe' = Pipe
  BY DEF Pipe, queueVars, launcherVars
<1>5. ASSUME NEW c \in Builds
      PROVE  BuildInv(c)' /\ ProgressInv(c)'
  <2>1. BuildInv(c)'
    BY <1>1 DEF BuildInv, Pending, counters
  <2>2. ProgressInv(c)'
    BY <1>2, <1>4, QuietMove, QueueTypes, PartOfQueue DEF launcherVars
  <2> QED
    BY <2>1, <2>2
<1> QED
  BY <1>2, <1>3, <1>5

\* What was on its way to the launcher is lost, what it has sent can still be read.
LEMMA CrashStep ==
  ASSUME IInv, LauncherCrashes
  PROVE  IInv'
<1> USE DEF IInv
<1> DEFINE closed == [type |-> "closed"]
           T == [type : {"closed"}] \cup Answer
<1>1. /\ launcher \in {"starting", "up"} /\ launcher' = "dead" /\ noticed' = FALSE
      /\ crashes' \in 0 .. MaxCrashes /\ toLauncher' = <<>> /\ programs' = NoPrograms
      /\ launcher = "up" => toQbs' = Append(toQbs, closed)
      /\ launcher # "up" => toQbs' = toQbs
      /\ UNCHANGED <<buildVars, inbox, startRequests, server, socket, queueVars>>
  BY BoundsAssumption DEF LauncherCrashes, TypeOK
<1>2. Running' = Running
  BY <1>1 DEF Running, buildVars
<1>3. closed \in T /\ closed \notin Answer /\ toQbs \in Seq(T)
  BY QueueTypes DEF Answer
<1>4. toQbs' \in Seq(T) /\ \A S \in SUBSET Answer : PartOf(toQbs', toQbs, S)
  <2> HIDE DEF closed, T
  <2>1. CASE launcher = "up"
    <3>1. toQbs' \in Seq(T)
      BY <1>1, <1>3, <2>1, AppendToQueue
    <3>2. ASSUME NEW S \in SUBSET Answer PROVE PartOf(Append(toQbs, closed), toQbs, S)
      <4>1. closed \notin S
        BY <1>3
      <4> QED
        BY <1>3, <4>1, PartOfQueue
    <3> QED
      BY <1>1, <2>1, <3>1, <3>2
  <2>2. CASE launcher # "up"
    BY <1>1, <1>3, <2>2, PartOfQueue
  <2> QED
    BY <2>1, <2>2
<1>5. TypeOK'
  <2>1. {server, socket, posted, noticed}' \subseteq BOOLEAN
    BY <1>1, FlagTypes DEF queueVars
  <2>2. NoPrograms \in [Builds -> [n : 0 .. MaxPrograms, stop : {"Inactive", "Terminating", "Killing"}]]
    BY BoundsAssumption DEF NoPrograms, NoProgram
  <2>3. UNCHANGED <<phase, canceled, process, starts, stops, inbox, startRequests, requests, stopped>>
    BY <1>1 DEF counters, buildVars, queueVars
  <2>4. toLauncher' \in Seq(Packet) /\ launcher' \in {"none", "starting", "up", "dead"}
    BY <1>1
  <2> QED
    BY <1>1, <1>4, <2>1, <2>2, <2>3, <2>4 DEF TypeOK
<1>6. OnlyLast(toQbs', closed)
  <2> HIDE DEF closed, T
  <2>1. CASE launcher = "up"
    <3>1. None(toQbs, {closed})
      BY <2>1 DEF ConnectionInv, closed
    <3> QED
      BY <1>1, <1>3, <2>1, <3>1, LastOfQueue
  <2>2. CASE launcher # "up"
    BY <1>1, <2>2 DEF ConnectionInv, closed
  <2> QED
    BY <2>1, <2>2
<1>7. ConnectionInv'
  BY <1>1, <1>2, <1>6 DEF ConnectionInv, LauncherServesBuilds, NoPrograms
<1>8. Pipe' = <<>>
  BY <1>1 DEF Pipe
<1>9. ASSUME NEW c \in Builds
      PROVE  BuildInv(c)' /\ ProgressInv(c)'
  <2>1. BuildInv(c)'
    BY <1>1, <1>2 DEF BuildInv, Pending, counters, buildVars
  <2>2. PartOf(toQbs', toQbs, Answers(c))
    BY <1>4 DEF Answers
  <2>3. PartOf(Pipe', Pipe, Starts(c) \cup Stops(c)) /\ PartOf(inbox'[c], inbox[c], Answer)
    BY <1>1, <1>8, QueueTypes, PartOfQueue
  <2>4. programs'[c] = NoProgram
    BY <1>1 DEF NoPrograms
  <2>7. ProgressInv(c)'
    BY <1>1, <1>5, <2>2, <2>3, <2>4, FewerMove DEF buildVars
  <2> QED
    BY <2>1, <2>7
<1> QED
  BY <1>5, <1>7, <1>9

\* LauncherSocket::handleSocketDisconnected(): nothing follows the end of the connection, so
\* that no answer is left behind.
LEMMA ClosedStep ==
  ASSUME IInv, socket, toQbs # <<>>, Head(toQbs).type = "closed", toQbs' = Tail(toQbs),
         socket' = FALSE, Emit("socketError"),
         UNCHANGED <<buildVars, startRequests, server, launcher, noticed, crashes, queueVars,
                     toLauncher, programs>>
  PROVE  IInv'
<1> USE DEF IInv
<1> DEFINE closed == [type |-> "closed"]
           T == [type : {"closed"}] \cup Answer
           lost == [type |-> "socketError"]
           Signal == [type : {"ready", "socketError"}] \cup Answer
<1>1. toQbs \in Seq(T) /\ Head(toQbs) = closed
  <2>1. Head(toQbs) \in T /\ toQbs \in Seq(T)
    BY QueueTypes, TakeFromQueue
  <2> QED
    BY <2>1 DEF Answer
<1>2. toQbs' = <<>> /\ launcher = "dead"
  <2>1. ~None(toQbs, {closed})
    <3> HIDE DEF T, closed
    <3> QED
      BY <1>1, TakeFromQueue
  <2>2. toQbs' = <<>>
    BY <1>1, LastOfQueue DEF ConnectionInv
  <2> QED
    BY <2>1, <2>2 DEF ConnectionInv, TypeOK
<1>3. Running' = Running
  BY DEF Running, buildVars
<1>4. TypeOK'
  <2>1. {server, socket, posted, noticed}' \subseteq BOOLEAN
    BY FlagTypes DEF queueVars
  <2>2. toQbs' \in Seq(T)
    <3> HIDE DEF T
    <3> QED
      BY <1>1, TakeFromQueue
  <2> QED
    BY <2>1, <2>2, EmitEffect DEF TypeOK, counters, buildVars, queueVars
<1>5. ConnectionInv'
  BY <1>2, <1>3, EmptyQueue DEF ConnectionInv, LauncherServesBuilds, OnlyLast
<1>6. Pipe' = Pipe
  BY <1>2 DEF Pipe
<1>7. ASSUME NEW c \in Builds
      PROVE  BuildInv(c)' /\ ProgressInv(c)'
  <2>1. inbox[c] \in Seq(Signal) /\ lost \in Signal /\ None(inbox[c], {lost})
    BY QueueTypes DEF BuildInv
  <2>2. c \notin Running => inbox'[c] = <<>>
    BY EmitEffect DEF BuildInv
  <2>3. OnlyLast(inbox'[c], lost)
    <3>1. inbox'[c] = Append(inbox[c], lost) \/ inbox'[c] = inbox[c]
      BY EmitEffect
    <3> HIDE DEF lost, Signal
    <3> QED
      BY <2>1, <3>1, LastOfQueue
  <2>4. BuildInv(c)'
    BY <1>2, <1>3, <2>2, <2>3 DEF BuildInv, Pending, counters, buildVars
  <2>5. PartOf(Pipe', Pipe, Starts(c) \cup Stops(c)) /\ PartOf(inbox'[c], inbox[c], Answer)
    BY <1>6, QueueTypes, PartOfQueue, EmitEffect
  <2>6. PartOf(toQbs', toQbs, Answers(c))
    BY <1>2, QueueTypes, PartOfQueue
  <2>9. ProgressInv(c)'
    BY <1>4, <2>5, <2>6, FewerMove DEF buildVars
  <2> QED
    BY <2>4, <2>9
<1> QED
  BY <1>4, <1>5, <1>7

\* LauncherSocket::handleSocketDataAvailable()
LEMMA ReadStep ==
  ASSUME IInv, socket, toQbs # <<>>, Head(toQbs).type # "closed", toQbs' = Tail(toQbs),
         NEW b, b = Head(toQbs).build,
         inbox' = IF b \in Running THEN [inbox EXCEPT ![b] = Append(@, Head(toQbs))] ELSE inbox,
         UNCHANGED <<buildVars, startRequests, server, socket, launcher, noticed, crashes,
                     queueVars, toLauncher, programs>>
  PROVE  IInv'
<1> USE DEF IInv
<1> DEFINE a == Head(toQbs)
           T == [type : {"closed"}] \cup Answer
           lost == [type |-> "socketError"]
           Signal == [type : {"ready", "socketError"}] \cup Answer
<1>1. /\ toQbs \in Seq(T) /\ toQbs' \in Seq(T) /\ a \in Answer /\ a \in Answers(b) /\ b \in Builds
      /\ a # lost /\ a \in Signal
  <2>1. a \in T /\ toQbs \in Seq(T) /\ Tail(toQbs) \in Seq(T)
    BY QueueTypes, TakeFromQueue
  <2>2. a \in Answer
    BY <2>1
  <2> QED
    BY <2>1, <2>2 DEF Answer, Answers
<1>2. Running' = Running
  BY DEF Running, buildVars
<1>3. b \in Running
  <2>1. Answered(b)
    BY <1>1, TakeFromQueue DEF Answered
  <2> QED
    BY <1>1, <2>1 DEF ProgressInv, TokenInv, BuildInv, Pending
<1>4. inbox' = [inbox EXCEPT ![b] = Append(inbox[b], a)]
  BY <1>3
<1> HIDE DEF a
<1>5. /\ inbox[b] \in Seq(Signal) /\ Append(inbox[b], a) \in Seq(Signal)
      /\ inbox' \in [Builds -> Seq(Signal)]
      /\ inbox'[b] = Append(inbox[b], a) /\ \A c \in Builds : c # b => inbox'[c] = inbox[c]
  <2>1. inbox \in [Builds -> Seq(Signal)]
    BY DEF TypeOK
  <2> HIDE DEF Signal
  <2>2. Append(inbox[b], a) \in Seq(Signal)
    BY <1>1, <2>1, AppendToQueue
  <2> QED
    BY <1>1, <1>4, <2>1, <2>2
<1>6. TypeOK'
  <2>1. {server, socket, posted, noticed}' \subseteq BOOLEAN
    BY FlagTypes DEF queueVars
  <2> QED
    BY <1>1, <1>5, <2>1 DEF TypeOK, counters, buildVars, queueVars
<1>7. ConnectionInv'
  <2> DEFINE closed == [type |-> "closed"]
  <2>1. launcher = "up" => None(toQbs, {closed})
    BY DEF ConnectionInv
  <2>2. OnlyLast(toQbs, closed)
    BY DEF ConnectionInv
  <2> HIDE DEF closed
  <2>3. (launcher = "up" => None(toQbs', {closed})) /\ OnlyLast(toQbs', closed)
    BY <1>1, <2>1, <2>2, LastOfQueue, TakeFromQueue
  <2> QED
    BY <1>2, <2>3 DEF ConnectionInv, LauncherServesBuilds, closed
<1>8. Pipe' = Pipe
  BY DEF Pipe, queueVars
<1>9. launcher # "starting"
  BY DEF ConnectionInv
<1>10. ASSUME NEW c \in Builds
       PROVE  BuildInv(c)' /\ ProgressInv(c)'
  <2>1. CASE c = b
    <3>1. None(inbox[b], {lost})
      BY <1>1 DEF BuildInv
    <3>2. None(inbox'[b], {lost}) /\ OnlyLast(inbox'[b], lost)
      <4> HIDE DEF lost, Signal
      <4> QED
        BY <1>1, <1>5, <3>1, AppendToQueue, LastOfQueue
    <3>3. BuildInv(b)'
      BY <1>1, <1>2, <1>3, <1>9, <3>2 DEF BuildInv, Pending, counters, buildVars
    <3>4. ProgressInv(b)'
      BY <1>1, <1>5, <1>6, <1>8, AnswerMove DEF buildVars, a
    <3> QED
      BY <2>1, <3>3, <3>4
  <2>2. CASE c # b
    <3>1. BuildInv(c)'
      BY <1>2, <1>5, <2>2 DEF BuildInv, Pending, counters, buildVars
    <3>2. PartOf(Pipe', Pipe, Starts(c) \cup Stops(c)) /\ PartOf(inbox'[c], inbox[c], Answer)
      BY <1>5, <1>8, <2>2, QueueTypes, PartOfQueue
    <3>3. PartOf(toQbs', toQbs, Answers(c))
      BY QueueTypes, PartOfQueue
    <3>6. ProgressInv(c)'
      BY <1>6, <3>2, <3>3, FewerMove DEF buildVars
    <3> QED
      BY <3>1, <3>6
  <2> QED
    BY <2>1, <2>2
<1> QED
  BY <1>6, <1>7, <1>10

\* Both of them.
LEMMA ReadSocketStep ==
  ASSUME IInv, ReadSocket
  PROVE  IInv'
<1>1. CASE Head(toQbs).type = "closed"
  BY <1>1, ClosedStep DEF ReadSocket
<1>2. CASE Head(toQbs).type # "closed"
  <2>1. PICK b : b = Head(toQbs).build
    OBVIOUS
  <2>2. /\ socket /\ toQbs # <<>> /\ toQbs' = Tail(toQbs)
        /\ inbox' = IF b \in Running THEN [inbox EXCEPT ![b] = Append(@, Head(toQbs))] ELSE inbox
        /\ UNCHANGED <<buildVars, startRequests, server, socket, launcher, noticed, crashes,
                       queueVars, toLauncher, programs>>
    BY <1>2, <2>1 DEF ReadSocket
  <2> QED
    BY <1>2, <2>1, <2>2, ReadStep
<1> QED
  BY <1>1, <1>2

\* LauncherSocket::handleRequests() moves packets along the pipe.
LEMMA HandleRequestsStep ==
  ASSUME IInv, HandleRequests
  PROVE  IInv'
<1> USE DEF IInv
<1>1. /\ posted /\ posted' = FALSE
      /\ UNCHANGED <<buildVars, inbox, interfaceVars, toQbs, programs>>
      /\ socket => requests' = <<>>
      /\ ~socket => UNCHANGED <<requests, toLauncher>>
      /\ socket /\ launcher = "up" => toLauncher' = toLauncher \o requests
      /\ socket /\ launcher # "up" => toLauncher' = toLauncher
  BY DEF HandleRequests
<1>2. Running' = Running /\ UNCHANGED <<server, socket, launcher, noticed, startRequests, crashes>>
  BY <1>1 DEF Running, buildVars, interfaceVars
<1>3. Pipe' = Pipe
  BY <1>1, <1>2 DEF Pipe, ConnectionInv
<1>4. TypeOK'
  <2>1. {server, socket, posted, noticed}' \subseteq BOOLEAN
    BY <1>1, <1>2, FlagTypes
  <2>2. requests' \in Seq(Packet) /\ toLauncher' \in Seq(Packet)
    <3>1. toLauncher \o requests \in Seq(Packet) /\ <<>> \in Seq(Packet)
      BY QueueTypes, JoinedQueues
    <3> QED
      BY <1>1, <3>1, QueueTypes
  <2> QED
    BY <1>1, <1>2, <2>1, <2>2 DEF TypeOK, counters, buildVars
<1>5. ConnectionInv'
  BY <1>1, <1>2 DEF ConnectionInv, LauncherServesBuilds
<1>6. ASSUME NEW c \in Builds
      PROVE  BuildInv(c)' /\ ProgressInv(c)'
  <2>1. BuildInv(c)'
    BY <1>1, <1>2 DEF BuildInv, Pending, counters, buildVars
  <2>2. ProgressInv(c)'
    BY <1>1, <1>3, <1>4, QuietMove, QueueTypes, PartOfQueue DEF buildVars
  <2> QED
    BY <2>1, <2>2
<1> QED
  BY <1>4, <1>5, <1>6

(***************************************************************************)
(* The launcher                                                              *)
(***************************************************************************)
\* The packet that the launcher reads is the first one of the pipe.
LEMMA PipeTail ==
  ASSUME TypeOK, launcher = "up", toLauncher # <<>>, toLauncher' = Tail(toLauncher),
         UNCHANGED <<launcher, posted, requests>>
  PROVE  /\ toLauncher' \in Seq(Packet)
         /\ Pipe # <<>> /\ Head(Pipe) = Head(toLauncher) /\ Pipe' = Tail(Pipe)
<1>1. requests \in Seq(Packet) /\ toLauncher \in Seq(Packet)
  BY DEF TypeOK
<1>2. toLauncher' \in Seq(Packet)
  BY <1>1
<1>3. CASE posted
  BY <1>1, <1>2, <1>3, JoinedQueues DEF Pipe
<1>4. CASE ~posted
  BY <1>1, <1>2, <1>4 DEF Pipe
<1> QED
  BY <1>3, <1>4

\* The steps of the launcher that concern the program of one build.
LEMMA LauncherSteps ==
  ASSUME IInv, LauncherStep, NEW b \in Builds,
         programs' \in [Builds -> [n : 0 .. MaxPrograms, stop : {"Inactive", "Terminating", "Killing"}]],
         \A c \in Builds : c # b => programs'[c] = programs[c],
         \/ toLauncher' = toLauncher
         \/ toLauncher # <<>> /\ toLauncher' = Tail(toLauncher) /\ Head(toLauncher).build = b,
         \/ toQbs' = toQbs
         \/ Runs(b) /\ \E type \in {"error", "finished"} : toQbs' = Reply(type, b),
         TypeOK' => ProgressInv(b)'
  PROVE  IInv'
<1> USE DEF IInv
<1>1. /\ launcher = "up" /\ Running' = Running
      /\ UNCHANGED <<phase, canceled, process, starts, stops, stopped, inbox, requests, posted>>
      /\ UNCHANGED <<server, socket, launcher, noticed, startRequests, crashes>>
  BY DEF LauncherStep, Running, buildVars, interfaceVars, queueVars, counters
<1>2. toLauncher' \in Seq(Packet) /\ (Pipe' = Pipe \/ (Pipe # <<>> /\ Pipe' = Tail(Pipe)))
  <2>1. CASE toLauncher' = toLauncher
    BY <1>1, <2>1, QueueTypes DEF Pipe
  <2>2. CASE toLauncher # <<>> /\ toLauncher' = Tail(toLauncher)
    BY <1>1, <2>2, PipeTail
  <2> QED
    BY <2>1, <2>2
<1> DEFINE T == [type : {"closed"}] \cup Answer
           closed == [type |-> "closed"]
<1>3. \/ toQbs' = toQbs
      \/ \E a \in Answers(b) : toQbs' = Append(toQbs, a)
  <2>1. ASSUME Runs(b), NEW type \in {"error", "finished"}, toQbs' = Reply(type, b)
        PROVE  \E a \in Answers(b) : toQbs' = Append(toQbs, a)
    <3>1. programs[b].n \in 0 .. MaxPrograms /\ MaxPrograms \in Nat /\ programs[b].n # 0
      BY <2>1, BoundsAssumption DEF TypeOK, Runs
    <3>2. programs[b].n \in 1 .. MaxPrograms
      BY <3>1
    <3>3. [type |-> type, build |-> b, n |-> programs[b].n] \in Answers(b)
      BY <3>2 DEF Answers, Answer
    <3> QED
      BY <2>1, <3>3 DEF Reply
  <2> QED
    BY <2>1
<1>4. /\ toQbs' \in Seq(T) /\ None(toQbs', {closed})
      /\ \A c \in Builds : c # b => PartOf(toQbs', toQbs, Answers(c))
  <2>1. toQbs \in Seq(T) /\ None(toQbs, {closed})
    BY <1>1, QueueTypes DEF ConnectionInv
  <2>2. \A a \in Answers(b) : a \in T /\ a \notin {closed} /\ \A c \in Builds : c # b => a \notin Answers(c)
    BY DEF Answers, Answer
  <2> HIDE DEF T, closed
  <2>3. CASE toQbs' = toQbs
    BY <2>1, <2>3, PartOfQueue
  <2>4. ASSUME NEW a \in Answers(b), toQbs' = Append(toQbs, a)
        PROVE  <1>4!:
    BY <2>1, <2>2, <2>4, AppendToQueue, PartOfQueue
  <2> QED
    BY <1>3, <2>3, <2>4
<1>5. TypeOK'
  BY <1>1, <1>2, <1>4 DEF TypeOK
<1>6. ConnectionInv'
  <2>1. OnlyLast(toQbs', closed)
    <3> HIDE DEF T, closed
    <3> QED
      BY <1>4, LastOfQueue
  <2> QED
    BY <1>1, <1>4, <2>1 DEF ConnectionInv, LauncherServesBuilds
<1>7. \A c \in Builds : c # b => PartOf(Pipe', Pipe, Starts(c) \cup Stops(c))
  <2> TAKE c \in Builds
  <2>1. CASE Pipe' = Pipe
    BY <2>1, QueueTypes, PartOfQueue
  <2>2. CASE Pipe # <<>> /\ Pipe' = Tail(Pipe)
    BY <2>2, QueueTypes, PartOfQueue
  <2> QED
    BY <1>2, <2>1, <2>2
<1>8. ASSUME NEW c \in Builds
      PROVE  BuildInv(c)' /\ ProgressInv(c)'
  <2>1. BuildInv(c)'
    BY <1>1 DEF BuildInv, Pending
  <2>2. CASE c = b
    BY <1>5, <2>1, <2>2
  <2>3. CASE c # b
    BY <1>1, <1>4, <1>5, <1>7, <2>1, <2>3, QueueTypes, PartOfQueue, FewerMove
  <2> QED
    BY <2>2, <2>3
<1> QED
  BY <1>5, <1>6, <1>8

\* LauncherSocketHandler::handleProcessFinished() and handleProcessError()
LEMMA ProgramEndsStep ==
  ASSUME IInv, NEW b \in Builds, NEW type \in {"error", "finished"}, ProgramEnds(b, type)
  PROVE  IInv'
<1> USE DEF IInv
<1>1. /\ Runs(b) /\ programs' = [programs EXCEPT ![b] = NoProgram] /\ toQbs' = Reply(type, b)
      /\ toLauncher' = toLauncher /\ LauncherStep
  BY DEF ProgramEnds, Runs
<1>2. /\ programs' \in [Builds -> [n : 0 .. MaxPrograms, stop : {"Inactive", "Terminating", "Killing"}]]
      /\ programs'[b] = NoProgram /\ \A c \in Builds : c # b => programs'[c] = programs[c]
  BY <1>1, BoundsAssumption DEF TypeOK, NoProgram
<1>3. UNCHANGED <<process, inbox, stopped>> /\ Pipe' = Pipe
  BY <1>1 DEF LauncherStep, buildVars, interfaceVars, queueVars, Pipe
<1>4. TypeOK' => ProgressInv(b)'
  BY <1>1, <1>2, <1>3, EndMove, QueueTypes, PartOfQueue
<1> QED
  BY <1>1, <1>2, <1>4, LauncherSteps

\* Process::cancel() for a program that somebody wanted to stop.
LEMMA StopProgramStep ==
  ASSUME IInv, LauncherStep, NEW b \in Builds, Runs(b), <<b, programs[b].n>> \in stopped,
         StopProgram(b),
         \/ toLauncher' = toLauncher
         \/ toLauncher # <<>> /\ toLauncher' = Tail(toLauncher) /\ Head(toLauncher).build = b
  PROVE  IInv'
<1> USE DEF IInv
<1>1. /\ launcher = "up" /\ UNCHANGED <<process, inbox, stopped, launcher, posted, requests>>
  BY DEF LauncherStep, buildVars, interfaceVars, queueVars
<1>2. PartOf(Pipe', Pipe, Starts(b) \cup Stops(b))
  <2>1. CASE toLauncher' = toLauncher
    <3>1. Pipe' = Pipe
      BY <1>1, <2>1 DEF Pipe
    <3> QED
      BY <3>1, QueueTypes, PartOfQueue
  <2>2. CASE toLauncher # <<>> /\ toLauncher' = Tail(toLauncher)
    BY <1>1, <2>2, PipeTail, QueueTypes, PartOfQueue
  <2> QED
    BY <2>1, <2>2
<1>3. CASE programs[b].stop = "Killing"
  <2>1. programs' = [programs EXCEPT ![b] = NoProgram] /\ toQbs' = Reply("finished", b)
    BY <1>3 DEF StopProgram
  <2>2. /\ programs' \in [Builds -> [n : 0 .. MaxPrograms, stop : {"Inactive", "Terminating", "Killing"}]]
        /\ programs'[b] = NoProgram /\ \A c \in Builds : c # b => programs'[c] = programs[c]
    BY <2>1, BoundsAssumption DEF TypeOK, NoProgram
  <2>3. TypeOK' => ProgressInv(b)'
    BY <1>1, <1>2, <2>1, <2>2, EndMove
  <2> QED
    BY <2>1, <2>2, <2>3, LauncherSteps
<1>4. CASE programs[b].stop # "Killing"
  <2>1. PICK stop \in {"Terminating", "Killing"} :
          programs' = [programs EXCEPT ![b].stop = stop] /\ toQbs' = toQbs
    BY <1>4 DEF StopProgram
  <2>2. /\ programs' \in [Builds -> [n : 0 .. MaxPrograms, stop : {"Inactive", "Terminating", "Killing"}]]
        /\ programs'[b].n = programs[b].n /\ \A c \in Builds : c # b => programs'[c] = programs[c]
    BY <2>1 DEF TypeOK
  <2>3. ASSUME TypeOK' PROVE ProgressInv(b)'
    BY <1>1, <1>2, <2>1, <2>2, <2>3, StoppingMove, QueueTypes, PartOfQueue
  <2> QED
    BY <2>1, <2>2, <2>3, LauncherSteps
<1> QED
  BY <1>3, <1>4

\* The timer of the stop procedure.
LEMMA StopTimerStep ==
  ASSUME IInv, NEW b \in Builds, StopTimer(b)
  PROVE  IInv'
<1>1. Runs(b) /\ <<b, programs[b].n>> \in stopped
  BY DEF IInv, StopTimer, ProgressInv, ProgramInv, Runs
<1> QED
  BY <1>1, StopProgramStep DEF StopTimer

\* LauncherSocketHandler::handlePacket(): a stop that finds a program running is one of that
\* program, because those of earlier ones are gone.
LEMMA HandlePacketStep ==
  ASSUME IInv, HandlePacket
  PROVE  IInv'
<1> USE DEF IInv
<1>1. /\ toLauncher # <<>> /\ toLauncher' = Tail(toLauncher) /\ LauncherStep
      /\ launcher = "up" /\ UNCHANGED <<process, inbox, stopped, launcher, posted, requests>>
  BY DEF HandlePacket, LauncherStep, buildVars, interfaceVars, queueVars
<1>2. PICK p \in Packet : p = Head(toLauncher)
  BY <1>1, QueueTypes, TakeFromQueue
<1>3. PICK b \in Builds : p.build = b
  BY DEF Packet
<1>4. p.n \in 1 .. MaxPrograms /\ p.type \in {"start", "stop"}
  BY DEF Packet
<1>5. Pipe # <<>> /\ Head(Pipe) = p /\ Pipe' = Tail(Pipe)
  BY <1>1, <1>2, PipeTail
<1>6. \/ /\ p.type = "start" /\ toQbs' = toQbs
         /\ Runs(b) => programs' = programs
         /\ ~Runs(b) => programs' = [programs EXCEPT ![b].n = p.n]
      \/ p.type = "stop" /\ Runs(b) /\ StopProgram(b)
      \/ p.type = "stop" /\ ~Runs(b) /\ UNCHANGED <<programs, toQbs>>
  BY <1>2, <1>3 DEF HandlePacket, Runs
<1>7. CASE p.type = "start"
  <2>1. /\ toQbs' = toQbs
        /\ Runs(b) => programs' = programs
        /\ ~Runs(b) => programs' = [programs EXCEPT ![b].n = p.n]
    BY <1>6, <1>7
  <2>2. p \in Starts(b)
    BY <1>3, <1>7 DEF Starts
  <2>3. /\ programs' \in [Builds -> [n : 0 .. MaxPrograms, stop : {"Inactive", "Terminating", "Killing"}]]
        /\ \A c \in Builds : c # b => programs'[c] = programs[c]
    <3>1. CASE Runs(b)
      BY <2>1, <3>1 DEF TypeOK
    <3>2. CASE ~Runs(b)
      <4>1. p.n \in 0 .. MaxPrograms
        BY <1>4, BoundsAssumption
      <4> DEFINE R == [n : 0 .. MaxPrograms, stop : {"Inactive", "Terminating", "Killing"}]
      <4>2. programs \in [Builds -> R] /\ [programs[b] EXCEPT !.n = p.n] \in R
        BY <4>1 DEF TypeOK
      <4>3. programs' = [programs EXCEPT ![b] = [programs[b] EXCEPT !.n = p.n]]
        BY <2>1, <3>2
      <4> HIDE DEF R
      <4>4. programs' \in [Builds -> R] /\ \A c \in Builds : c # b => programs'[c] = programs[c]
        BY <4>2, <4>3
      <4> QED
        BY <4>4 DEF R
    <3> QED
      BY <3>1, <3>2
  <2>4. TypeOK' => ProgressInv(b)'
    BY <1>1, <1>5, <2>1, <2>2, StartMove DEF Runs
  <2> QED
    BY <1>1, <1>2, <1>3, <2>1, <2>3, <2>4, LauncherSteps
<1>8. CASE p.type = "stop" /\ Runs(b)
  <2>1. StopProgram(b)
    BY <1>6, <1>8
  <2>2. p \in Stops(b)
    BY <1>3, <1>8 DEF Stops
  <2>3. <<b, programs[b].n>> \in stopped
    <3>1. None(Pipe, OldStops(b)) /\ programs[b].n = process[b].n
      BY <1>8 DEF ProgressInv, ProgramInv, Runs
    <3>2. None(Pipe, {q \in Stops(b) : <<b, q.n>> \notin stopped})
      BY DEF ProgressInv, PipeInv
    <3>3. p \notin OldStops(b) /\ p \notin {q \in Stops(b) : <<b, q.n>> \notin stopped}
      BY <1>5, <3>1, <3>2, QueueTypes, TakeFromQueue
    <3> QED
      BY <2>2, <3>1, <3>3 DEF OldStops
  <2> QED
    BY <1>1, <1>2, <1>3, <1>8, <2>1, <2>3, StopProgramStep
<1>9. CASE p.type = "stop" /\ ~Runs(b)
  <2>1. UNCHANGED <<programs, toQbs>>
    BY <1>6, <1>9
  <2>2. programs' \in [Builds -> [n : 0 .. MaxPrograms, stop : {"Inactive", "Terminating", "Killing"}]]
    BY <2>1 DEF TypeOK
  <2>3. TypeOK' => ProgressInv(b)'
    <3>1. PartOf(Pipe', Pipe, Starts(b) \cup Stops(b)) /\ PartOf(toQbs', toQbs, Answers(b))
          /\ PartOf(inbox'[b], inbox[b], Answer)
      BY <1>1, <1>5, <2>1, QueueTypes, PartOfQueue
    <3> QED
      BY <1>1, <2>1, <3>1, FewerMove
  <2> QED
    BY <1>1, <1>2, <1>3, <2>1, <2>2, <2>3, LauncherSteps
<1> QED
  BY <1>4, <1>7, <1>8, <1>9

(***************************************************************************)
(* The end of a build                                                        *)
(***************************************************************************)
\* LauncherInterface::doStop()
LEMMA FinishBuildStep ==
  ASSUME IInv, NEW b \in Builds, FinishBuild(b)
  PROVE  IInv'
<1> USE DEF IInv
<1>1. /\ b \in Running /\ ~Pending(b) /\ startRequests' = startRequests - 1
      /\ ShutDown(startRequests = 1) /\ phase' = [phase EXCEPT ![b] = "done"]
      /\ inbox' = [inbox EXCEPT ![b] = <<>>]
      /\ UNCHANGED <<canceled, process, starts, stops, stopped, crashes, requests, posted>>
  BY DEF FinishBuild, EndBuild, Running, queueVars, counters
<1>2. /\ phase' \in [Builds -> {"new", "running", "done"}] /\ Running' = Running \ {b}
  BY <1>1 DEF TypeOK, Running
<1>3. /\ startRequests' = Cardinality(Running') /\ startRequests' \in 0 .. Cardinality(Builds)
      /\ startRequests = 1 <=> Running' = {}
  <2>1. Cardinality(Running') = Cardinality(Running) - 1
    BY <1>1, <1>2, BuildsCounted, FS_RemoveElement
  <2>2. IsFiniteSet(Running') /\ Cardinality(Running') <= Cardinality(Builds)
        /\ Cardinality(Builds) \in Nat /\ Cardinality(Running') \in Nat
    BY <1>2, BuildsAssumption, FS_Subset, FS_CardinalityType DEF Running
  <2>3. Cardinality(Running) \in Nat /\ startRequests = Cardinality(Running)
    BY BuildsCounted DEF ConnectionInv
  <2>4. startRequests' = Cardinality(Running')
    BY <1>1, <2>1, <2>3
  <2>5. startRequests' \in 0 .. Cardinality(Builds)
    BY <2>2, <2>4
  <2>6. startRequests = 1 <=> Running' = {}
    <3>1. startRequests = 1 <=> Running = {b}
      BY <1>1, BuildsCounted
    <3> QED
      BY <1>1, <1>2, <3>1
  <2> QED
    BY <2>4, <2>5, <2>6
<1>4. /\ inbox' \in [Builds -> Seq([type : {"ready", "socketError"}] \cup Answer)]
      /\ inbox'[b] = <<>> /\ \A c \in Builds : c # b => inbox'[c] = inbox[c]
  <2> DEFINE T == [type : {"ready", "socketError"}] \cup Answer
  <2>1. inbox \in [Builds -> Seq(T)] /\ <<>> \in Seq(T)
    BY DEF TypeOK
  <2> HIDE DEF T
  <2>2. /\ inbox' \in [Builds -> Seq(T)] /\ inbox'[b] = <<>>
        /\ \A c \in Builds : c # b => inbox'[c] = inbox[c]
    BY <1>1, <2>1
  <2> QED
    BY <2>2 DEF T
<1>5. \/ Running' # {} /\ UNCHANGED <<server, socket, launcher, noticed, toLauncher, toQbs, programs>>
      \/ /\ Running' = {} /\ server' = FALSE /\ socket' = FALSE /\ launcher' = "none" /\ noticed' = FALSE
         /\ toLauncher' = <<>> /\ toQbs' = <<>> /\ programs' = NoPrograms
  BY <1>1, <1>3 DEF ShutDown, launcherVars
<1>6. TypeOK'
  <2>1. {server, socket, posted, noticed}' \subseteq BOOLEAN
    BY <1>1, <1>5, FlagTypes
  <2>2. /\ programs' \in [Builds -> [n : 0 .. MaxPrograms, stop : {"Inactive", "Terminating", "Killing"}]]
        /\ launcher' \in {"none", "starting", "up", "dead"}
    <3>1. NoPrograms \in [Builds -> [n : 0 .. MaxPrograms, stop : {"Inactive", "Terminating", "Killing"}]]
      BY BoundsAssumption DEF NoPrograms, NoProgram
    <3>2. CASE Running' # {}
      BY <1>5, <3>2 DEF TypeOK
    <3>3. CASE Running' = {}
      BY <1>5, <3>1, <3>3
    <3> QED
      BY <3>2, <3>3
  <2>3. toLauncher' \in Seq(Packet) /\ toQbs' \in Seq([type : {"closed"}] \cup Answer)
    <3> DEFINE T == [type : {"closed"}] \cup Answer
    <3>1. toQbs \in Seq(T) /\ toLauncher \in Seq(Packet)
      BY QueueTypes
    <3> HIDE DEF T
    <3>2. <<>> \in Seq(T) /\ <<>> \in Seq(Packet)
      OBVIOUS
    <3>3. toQbs' \in Seq(T) /\ toLauncher' \in Seq(Packet)
      <4>1. CASE Running' # {}
        BY <1>5, <3>1, <4>1
      <4>2. CASE Running' = {}
        BY <1>5, <3>2, <4>2
      <4> QED
        BY <4>1, <4>2
    <3> QED
      BY <3>3 DEF T
  <2> QED
    BY <1>1, <1>2, <1>3, <1>4, <2>1, <2>2, <2>3 DEF TypeOK
<1>7. ConnectionInv'
  <2>1. CASE Running' # {}
    <3>1. LauncherServesBuilds'
      BY <1>1, <1>5, <2>1 DEF ConnectionInv, LauncherServesBuilds
    <3> QED
      BY <1>3, <1>5, <2>1, <3>1 DEF ConnectionInv, NoPrograms
  <2>2. CASE Running' = {}
    BY <1>3, <1>5, <2>2 DEF ConnectionInv, LauncherServesBuilds, OnlyLast, NoPrograms
  <2> QED
    BY <2>1, <2>2
<1>8. Pipe' = Pipe \/ Pipe' = <<>>
  BY <1>1, <1>5 DEF Pipe
<1>9. ASSUME NEW c \in Builds
      PROVE  BuildInv(c)' /\ ProgressInv(c)'
  <2>1. BuildInv(c)'
    <3>1. c # b => (c \in Running' <=> c \in Running)
      BY <1>2
    <3>2. CASE c = b
      <4>1. None(inbox'[b], {[type |-> "socketError"]}) /\ OnlyLast(inbox'[b], [type |-> "socketError"])
        BY <1>4 DEF None, OnlyLast
      <4>2. process'[b] = process[b] /\ ~(process[b].state # "NotRunning")
        BY <1>1 DEF Pending
      <4>3. process'[b].n <= starts'
        BY <1>1 DEF BuildInv
      <4> QED
        BY <1>4, <3>2, <4>1, <4>2, <4>3 DEF BuildInv, Pending
    <3>3. CASE c # b
      BY <1>1, <1>4, <1>5, <3>1, <3>3 DEF BuildInv, Pending
    <3> QED
      BY <3>2, <3>3
  <2>2. /\ PartOf(Pipe', Pipe, Starts(c) \cup Stops(c)) /\ PartOf(toQbs', toQbs, Answers(c))
        /\ PartOf(inbox'[c], inbox[c], Answer)
    BY <1>4, <1>5, <1>8, QueueTypes, PartOfQueue
  <2>3. programs'[c] = programs[c] \/ programs'[c] = NoProgram
    BY <1>5 DEF NoPrograms
  <2>4. ProgressInv(c)'
    BY <1>1, <1>6, <2>2, <2>3, FewerMove
  <2> QED
    BY <2>1, <2>4
<1> QED
  BY <1>6, <1>7, <1>9

(***************************************************************************)
(* The thread of a build                                                     *)
(***************************************************************************)
\* The type of process, and what an assignment to the fields of one QbsProcess makes of it.
ProcessType == [Builds -> [state : {"NotRunning", "Starting", "Running"},
                           socketError : BOOLEAN, n : 0 .. MaxPrograms]]

ProcessWith(b, s, e, n) == [process EXCEPT ![b] = [state |-> s, socketError |-> e, n |-> n]]

\* QbsProcess::start() sets the number of the program, and the state.
LEMMA ProcessNumber ==
  ASSUME TypeOK, NEW b \in Builds, NEW n \in 0 .. MaxPrograms,
         NEW s \in {"NotRunning", "Starting", "Running"}
  PROVE  /\ [process EXCEPT ![b].n = n] = ProcessWith(b, process[b].state, process[b].socketError, n)
         /\ [process EXCEPT ![b].n = n, ![b].state = s] = ProcessWith(b, s, process[b].socketError, n)
<1> DEFINE R == [state : {"NotRunning", "Starting", "Running"}, socketError : BOOLEAN, n : 0 .. MaxPrograms]
           r(x, y, z) == [state |-> x, socketError |-> y, n |-> z]
<1>1. process \in [Builds -> R] /\ process[b] \in R
  BY DEF TypeOK
<1>2. [process[b] EXCEPT !.n = n] = r(process[b].state, process[b].socketError, n)
  BY <1>1
<1>3. [r(process[b].state, process[b].socketError, n) EXCEPT !.state = s] = r(s, process[b].socketError, n)
  OBVIOUS
<1>4. [[process[b] EXCEPT !.n = n] EXCEPT !.state = s] = r(s, process[b].socketError, n)
  BY <1>2, <1>3
<1>5. [process EXCEPT ![b].n = n] = ProcessWith(b, process[b].state, process[b].socketError, n)
  BY <1>2 DEF ProcessWith
<1>6. [process EXCEPT ![b].n = n, ![b].state = s] = ProcessWith(b, s, process[b].socketError, n)
  BY <1>1, <1>4 DEF ProcessWith
<1> QED
  BY <1>5, <1>6

\* The other operations set the state, the error, or both.
LEMMA ProcessFields ==
  ASSUME TypeOK, NEW b \in Builds, NEW e \in BOOLEAN,
         NEW s \in {"NotRunning", "Starting", "Running"}
  PROVE  /\ [process EXCEPT ![b].state = s] = ProcessWith(b, s, process[b].socketError, process[b].n)
         /\ [process EXCEPT ![b].socketError = e] = ProcessWith(b, process[b].state, e, process[b].n)
         /\ [process EXCEPT ![b].socketError = e, ![b].state = s] = ProcessWith(b, s, e, process[b].n)
<1> DEFINE R == [state : {"NotRunning", "Starting", "Running"}, socketError : BOOLEAN, n : 0 .. MaxPrograms]
           r(x, y, z) == [state |-> x, socketError |-> y, n |-> z]
<1>1. process \in [Builds -> R] /\ process[b] \in R
  BY DEF TypeOK
<1>2. /\ [process[b] EXCEPT !.state = s] = r(s, process[b].socketError, process[b].n)
      /\ [process[b] EXCEPT !.socketError = e] = r(process[b].state, e, process[b].n)
  BY <1>1
<1>3. [r(process[b].state, e, process[b].n) EXCEPT !.state = s] = r(s, e, process[b].n)
  OBVIOUS
<1>4. [[process[b] EXCEPT !.socketError = e] EXCEPT !.state = s] = r(s, e, process[b].n)
  BY <1>2, <1>3
<1>5. [process EXCEPT ![b].state = s] = ProcessWith(b, s, process[b].socketError, process[b].n)
  BY <1>2 DEF ProcessWith
<1>6. [process EXCEPT ![b].socketError = e] = ProcessWith(b, process[b].state, e, process[b].n)
  BY <1>2 DEF ProcessWith
<1>7. [process EXCEPT ![b].socketError = e, ![b].state = s] = ProcessWith(b, s, e, process[b].n)
  BY <1>1, <1>4 DEF ProcessWith
<1> QED
  BY <1>5, <1>6, <1>7

\* What is known of a QbsProcess whose fields were set.
LEMMA ProcessEffect ==
  ASSUME TypeOK, NEW b \in Builds, NEW n \in 0 .. MaxPrograms, NEW e \in BOOLEAN,
         NEW s \in {"NotRunning", "Starting", "Running"}, process' = ProcessWith(b, s, e, n)
  PROVE  /\ process' \in ProcessType /\ process'[b].n = n /\ process'[b].state = s
         /\ \A c \in Builds : c # b => process'[c] = process[c]
<1> DEFINE R == [state : {"NotRunning", "Starting", "Running"}, socketError : BOOLEAN, n : 0 .. MaxPrograms]
           r == [state |-> s, socketError |-> e, n |-> n]
<1>1. process \in [Builds -> R] /\ r \in R /\ process' = [process EXCEPT ![b] = r]
  BY DEF TypeOK, ProcessWith
<1>2. /\ process' \in [Builds -> R] /\ process'[b] = r
      /\ \A c \in Builds : c # b => process'[c] = process[c]
  <2> HIDE DEF R, r
  <2> QED
    BY <1>1
<1> QED
  BY <1>2 DEF ProcessType

\* LauncherSocket::sendData(): the packet joins the pipe at its end, unless there is no launcher
\* or older requests wait for a call of handleRequests() that is not due.
LEMMA SendEffect ==
  ASSUME TypeOK, ConnectionInv, NEW p \in Packet, SendData(p),
         UNCHANGED <<launcher, socket, toLauncher>>
  PROVE  /\ requests' \in Seq(Packet) /\ posted' \in BOOLEAN
         /\ Pipe' = Pipe \/ Pipe' = Append(Pipe, p)
<1>1. requests \in Seq(Packet) /\ toLauncher \in Seq(Packet) /\ posted \in BOOLEAN
  BY QueueTypes, FlagTypes
<1>2. /\ socket => requests' = Append(requests, p) /\ posted' = (posted \/ requests = <<>>)
      /\ ~socket => requests' = requests /\ posted' = posted
  BY DEF SendData
<1>3. requests' \in Seq(Packet)
  BY <1>1, <1>2, AppendToQueue
<1>4. posted' \in BOOLEAN
  BY <1>1, <1>2
<1>5. CASE launcher # "up"
  BY <1>3, <1>4, <1>5 DEF Pipe
<1>6. CASE launcher = "up"
  <2>1. requests' = Append(requests, p) /\ posted' = (posted \/ requests = <<>>)
    BY <1>2, <1>6 DEF ConnectionInv
  <2>2. CASE posted
    <3>1. Pipe' = toLauncher \o Append(requests, p) /\ Pipe = toLauncher \o requests
      BY <1>6, <2>1, <2>2 DEF Pipe
    <3> QED
      BY <1>1, <1>3, <1>4, <3>1, JoinedQueues
  <2>3. CASE ~posted /\ requests = <<>>
    <3>1. Pipe' = toLauncher \o Append(requests, p) /\ Pipe = toLauncher
      BY <1>6, <2>1, <2>3 DEF Pipe
    <3>2. toLauncher \o Append(requests, p) = Append(toLauncher \o requests, p)
      BY <1>1, JoinedQueues
    <3>3. toLauncher \o requests = toLauncher
      BY <1>1, <2>3, JoinedQueues
    <3> QED
      BY <1>3, <1>4, <3>1, <3>2, <3>3
  <2>4. CASE ~posted /\ requests # <<>>
    <3>1. Pipe' = Pipe
      BY <1>6, <2>1, <2>4 DEF Pipe
    <3> QED
      BY <1>3, <1>4, <3>1
  <2> QED
    BY <2>2, <2>3, <2>4
<1> QED
  BY <1>3, <1>4, <1>5, <1>6

\* The steps of a build's thread that concern its QbsProcess.
LEMMA ProcessSteps ==
  ASSUME IInv, NEW b \in Builds, UNCHANGED <<phase, interfaceVars, launcherVars>>,
         canceled' \in [Builds -> {"no", "requested", "done"}],
         starts' \in 0 .. MaxPrograms, starts <= starts', stops' \in 0 .. MaxStops,
         stopped' \subseteq Builds \X (1 .. MaxPrograms), stopped \subseteq stopped',
         process' \in ProcessType, \A c \in Builds : c # b => process'[c] = process[c],
         inbox' \in [Builds -> Seq([type : {"ready", "socketError"}] \cup Answer)],
         \A c \in Builds : c # b => inbox'[c] = inbox[c],
         \/ UNCHANGED queueVars
         \/ \E p \in Packet : p.build = b /\ SendData(p),
         BuildInv(b)', TypeOK' => ProgressInv(b)'
  PROVE  IInv'
<1> USE DEF IInv
<1>1. /\ Running' = Running
      /\ UNCHANGED <<server, socket, launcher, noticed, startRequests, crashes, toLauncher, toQbs, programs>>
  BY DEF Running, interfaceVars, launcherVars
<1>2. /\ requests' \in Seq(Packet) /\ posted' \in BOOLEAN
      /\ \A c \in Builds : c # b => PartOf(Pipe', Pipe, Starts(c) \cup Stops(c))
  <2>1. CASE UNCHANGED queueVars
    <3>1. requests' = requests /\ posted' = posted /\ Pipe' = Pipe
      BY <1>1, <2>1 DEF Pipe, queueVars
    <3> QED
      BY <3>1, QueueTypes, FlagTypes, PartOfQueue
  <2>2. ASSUME NEW p \in Packet, p.build = b, SendData(p)
        PROVE  <1>2!:
    <3>1. \A c \in Builds : c # b => p \notin Starts(c) \cup Stops(c)
      BY <2>2 DEF Starts, Stops
    <3>2. /\ requests' \in Seq(Packet) /\ posted' \in BOOLEAN
          /\ Pipe' = Pipe \/ Pipe' = Append(Pipe, p)
      BY <1>1, <2>2, SendEffect
    <3>3. ASSUME NEW c \in Builds, c # b PROVE PartOf(Pipe', Pipe, Starts(c) \cup Stops(c))
      <4> DEFINE S == Starts(c) \cup Stops(c)
      <4>1. p \notin S
        BY <3>1, <3>3
      <4> HIDE DEF S
      <4>2. PartOf(Pipe, Pipe, S) /\ PartOf(Append(Pipe, p), Pipe, S)
        BY <4>1, QueueTypes, PartOfQueue
      <4>3. PartOf(Pipe', Pipe, S)
        BY <3>2, <4>2
      <4> QED
        BY <4>3 DEF S
    <3> QED
      BY <3>2, <3>3
  <2> QED
    BY <2>1, <2>2
<1>3. TypeOK'
  <2>1. {server, socket, posted, noticed}' \subseteq BOOLEAN
    BY <1>1, <1>2, FlagTypes
  <2> QED
    BY <1>1, <1>2, <2>1 DEF TypeOK, ProcessType
<1>4. ConnectionInv'
  BY <1>1 DEF ConnectionInv, LauncherServesBuilds, NoPrograms
<1>5. ASSUME NEW c \in Builds
      PROVE  BuildInv(c)' /\ ProgressInv(c)'
  <2>1. CASE c = b
    BY <1>3, <2>1
  <2>2. CASE c # b
    <3>1. process[c].n <= starts /\ process[c].n \in Nat /\ starts \in Nat /\ starts' \in Nat
      BY BoundsAssumption DEF BuildInv, TypeOK
    <3>2. process'[c].n <= starts'
      BY <2>2, <3>1
    <3>3. BuildInv(c)'
      BY <1>1, <2>2, <3>2 DEF BuildInv, Pending
    <3>4. ProgressInv(c)'
      BY <1>1, <1>2, <1>3, <2>2, QueueTypes, PartOfQueue, FewerMove
    <3> QED
      BY <3>3, <3>4
  <2> QED
    BY <2>1, <2>2
<1> QED
  BY <1>3, <1>4, <1>5

\* QbsProcess::start()
LEMMA StartProgramStep ==
  ASSUME IInv, NEW b \in Builds, StartProgram(b)
  PROVE  IInv'
<1> USE DEF IInv
<1>1. PICK n : n = process[b].n + 1
  OBVIOUS
<1>2. /\ phase[b] = "running" /\ process[b].state = "NotRunning" /\ starts < MaxPrograms
      /\ starts' = starts + 1 /\ UNCHANGED <<canceled, stops, stopped, inbox>>
      /\ UNCHANGED <<phase, interfaceVars, launcherVars>>
  BY DEF StartProgram, Pending
<1>3. \/ /\ process' = [process EXCEPT ![b].n = n] /\ UNCHANGED queueVars
      \/ /\ process' = [process EXCEPT ![b].n = n, ![b].state = "Running"]
         /\ SendData(StartPacket(b, n))
      \/ /\ process' = [process EXCEPT ![b].n = n, ![b].state = "Starting"]
         /\ UNCHANGED queueVars
  BY <1>1 DEF StartProgram
<1>4. /\ n \in 1 .. MaxPrograms /\ n \in 0 .. MaxPrograms /\ n # 0 /\ n <= starts'
      /\ starts' \in 0 .. MaxPrograms /\ starts <= starts'
  <2>1. /\ process[b].n \in 0 .. MaxPrograms /\ starts \in 0 .. MaxPrograms /\ MaxPrograms \in Nat
        /\ process[b].n <= starts
    BY BoundsAssumption DEF TypeOK, BuildInv
  <2> QED
    BY <1>1, <1>2, <2>1
<1>5. process[b].socketError \in BOOLEAN
  BY DEF TypeOK
<1>6. \E s \in {"NotRunning", "Starting", "Running"} :
        /\ process' = ProcessWith(b, s, process[b].socketError, n)
        /\ UNCHANGED queueVars \/ (SendData(StartPacket(b, n)) /\ s = "Running")
  <2> DEFINE e == process[b].socketError
  <2>5. TypeOK /\ n \in 0 .. MaxPrograms /\ process[b].state = "NotRunning"
    BY <1>2, <1>4
  <2>6. \A s \in {"NotRunning", "Starting", "Running"} :
          /\ [process EXCEPT ![b].n = n] = ProcessWith(b, process[b].state, e, n)
          /\ [process EXCEPT ![b].n = n, ![b].state = s] = ProcessWith(b, s, e, n)
    BY <2>5, ProcessNumber, Zenon
  <2>1. [process EXCEPT ![b].n = n] = ProcessWith(b, "NotRunning", e, n)
    BY <2>5, <2>6
  <2>3. /\ [process EXCEPT ![b].n = n, ![b].state = "Starting"] = ProcessWith(b, "Starting", e, n)
        /\ [process EXCEPT ![b].n = n, ![b].state = "Running"] = ProcessWith(b, "Running", e, n)
    BY <2>6
  <2> HIDE DEF e
  <2>4. \/ process' = ProcessWith(b, "NotRunning", e, n) /\ UNCHANGED queueVars
        \/ process' = ProcessWith(b, "Running", e, n) /\ SendData(StartPacket(b, n))
        \/ process' = ProcessWith(b, "Starting", e, n) /\ UNCHANGED queueVars
    BY <1>3, <2>1, <2>3
  <2> QED
    BY <2>4 DEF e
<1>7. StartPacket(b, n) \in Packet /\ StartPacket(b, n).build = b
  BY <1>4 DEF StartPacket, Packet
<1>8. /\ process' \in ProcessType /\ process'[b].n = n
      /\ \A c \in Builds : c # b => process'[c] = process[c]
      /\ \/ UNCHANGED queueVars
         \/ SendData(StartPacket(b, n)) /\ process'[b].state = "Running"
  BY <1>4, <1>5, <1>6, ProcessEffect
<1>9. \/ Pipe' = Pipe
      \/ Pipe' = Append(Pipe, StartPacket(b, n)) /\ process'[b].state = "Running"
  <2>1. UNCHANGED <<launcher, socket, toLauncher>>
    BY <1>2 DEF interfaceVars, launcherVars
  <2>2. CASE UNCHANGED queueVars
    BY <2>1, <2>2 DEF Pipe, queueVars
  <2>3. CASE SendData(StartPacket(b, n)) /\ process'[b].state = "Running"
    BY <1>7, <2>1, <2>3, SendEffect
  <2> QED
    BY <1>8, <2>2, <2>3
<1>10. BuildInv(b)'
  <2>1. b \in Running' /\ UNCHANGED <<socket, launcher, inbox>>
    BY <1>2 DEF Running, interfaceVars
  <2>2. b \in Running
    BY <1>2 DEF Running
  <2> QED
    BY <1>4, <1>8, <2>1, <2>2 DEF BuildInv, Pending
<1>11. TypeOK' => ProgressInv(b)'
  <2>1. PartOf(inbox'[b], inbox[b], Answer) /\ UNCHANGED <<programs, toQbs, stopped>>
    BY <1>2, QueueTypes, PartOfQueue DEF launcherVars
  <2> QED
    BY <1>2, <1>4, <1>8, <1>9, <2>1, AskMove
<1>12. /\ canceled' \in [Builds -> {"no", "requested", "done"}] /\ stops' \in 0 .. MaxStops
       /\ inbox' \in [Builds -> Seq([type : {"ready", "socketError"}] \cup Answer)]
       /\ stopped' \subseteq Builds \X (1 .. MaxPrograms) /\ stopped \subseteq stopped'
       /\ \A c \in Builds : inbox'[c] = inbox[c]
  BY <1>2 DEF TypeOK
<1> QED
  BY <1>2, <1>4, <1>7, <1>8, <1>10, <1>11, <1>12, ProcessSteps

\* QbsProcess::cancel(), after a timeout or because the build is canceled.
LEMMA CancelProgramStep ==
  ASSUME IInv, NEW b \in Builds, CancelProgram(b), stops' \in 0 .. MaxStops,
         canceled' \in [Builds -> {"no", "requested", "done"}],
         UNCHANGED <<phase, starts, inbox, interfaceVars, launcherVars>>
  PROVE  IInv'
<1> USE DEF IInv
<1>1. /\ starts' \in 0 .. MaxPrograms /\ starts <= starts'
      /\ inbox' \in [Builds -> Seq([type : {"ready", "socketError"}] \cup Answer)]
      /\ \A c \in Builds : inbox'[c] = inbox[c]
  BY BoundsAssumption DEF TypeOK
<1>2. /\ UNCHANGED <<launcher, socket, toLauncher, toQbs, programs>> /\ Running' = Running
      /\ UNCHANGED <<phase, interfaceVars, launcherVars>>
  BY DEF interfaceVars, launcherVars, Running
<1>3. process \in ProcessType /\ stopped \subseteq Builds \X (1 .. MaxPrograms)
  BY DEF TypeOK, ProcessType
<1>4. PartOf(toQbs', toQbs, Answers(b)) /\ PartOf(inbox'[b], inbox[b], Answer)
  BY <1>1, <1>2, QueueTypes, PartOfQueue
<1>5. CASE UNCHANGED <<process, queueVars, stopped>>
  <2>1. Pipe' = Pipe
    BY <1>2, <1>5 DEF Pipe, queueVars
  <2>2. BuildInv(b)'
    BY <1>2, <1>5 DEF BuildInv, Pending
  <2>3. TypeOK' => ProgressInv(b)'
    BY <1>2, <1>4, <1>5, <2>1, QuietMove
  <2> QED
    BY <1>1, <1>2, <1>3, <1>5, <2>2, <2>3, ProcessSteps
<1>6. CASE /\ process[b].state = "Starting" /\ process' = [process EXCEPT ![b].state = "NotRunning"]
           /\ UNCHANGED <<queueVars, stopped>>
  <2>1. process[b].n \in 0 .. MaxPrograms /\ process[b].socketError \in BOOLEAN
    BY DEF TypeOK
  <2>2. /\ process' \in ProcessType /\ \A c \in Builds : c # b => process'[c] = process[c]
        /\ process'[b].n = process[b].n /\ process'[b].state = "NotRunning"
    <3>1. process' = ProcessWith(b, "NotRunning", process[b].socketError, process[b].n)
      BY <1>6, <2>1, ProcessFields
    <3> QED
      BY <2>1, <3>1, ProcessEffect
  <2>3. Pipe' = Pipe
    BY <1>2, <1>6 DEF Pipe, queueVars
  <2>4. BuildInv(b)'
    BY <1>2, <2>2 DEF BuildInv, Pending
  <2>5. ASSUME TypeOK' PROVE ProgressInv(b)'
    <3>1. ~(Asked(b) \/ Runs(b) \/ Answered(b) \/ Told(b))
      BY <1>6 DEF ProgressInv, TokenInv
    <3>2. ~(Asked(b) \/ Runs(b) \/ Answered(b) \/ Told(b))'
      BY <1>1, <1>2, <2>3, <3>1 DEF Asked, Runs, Answered, Told, Starts, Answers
    <3>3. PartOf(Pipe', Pipe, Starts(b) \cup Stops(b))
      BY <2>3, QueueTypes, PartOfQueue
    <3> QED
      BY <1>2, <1>4, <1>6, <2>2, <2>5, <3>2, <3>3, KeepsProgress
  <2>6. stopped' = stopped
    BY <1>6
  <2> QED
    BY <1>1, <1>2, <1>3, <1>6, <2>2, <2>4, <2>5, <2>6, ProcessSteps
<1>7. CASE /\ process[b].state = "Running" /\ SendData(StopPacket(b, process[b].n))
           /\ stopped' = stopped \cup {<<b, process[b].n>>} /\ UNCHANGED process
  <2>1. process[b].n \in 1 .. MaxPrograms /\ process[b].n # 0
    <3>1. process[b].n \in 0 .. MaxPrograms /\ process[b].n # 0 /\ MaxPrograms \in Nat
      BY <1>7, BoundsAssumption DEF TypeOK, BuildInv, Pending
    <3> QED
      BY <3>1
  <2>2. StopPacket(b, process[b].n) \in Packet /\ StopPacket(b, process[b].n).build = b
    BY <2>1 DEF StopPacket, Packet
  <2>3. Pipe' = Pipe \/ Pipe' = Append(Pipe, StopPacket(b, process[b].n))
    BY <1>2, <1>7, <2>2, SendEffect
  <2>4. BuildInv(b)'
    BY <1>2, <1>7 DEF BuildInv, Pending
  <2>5. TypeOK' => ProgressInv(b)'
    BY <1>2, <1>7, <2>1, <2>3, StopMove
  <2>6. stopped' \subseteq Builds \X (1 .. MaxPrograms) /\ stopped \subseteq stopped'
    BY <1>3, <1>7, <2>1
  <2>7. \E p \in Packet : p.build = b /\ SendData(p)
    BY <1>7, <2>2
  <2> QED
    BY <1>1, <1>2, <1>3, <1>7, <2>4, <2>5, <2>6, <2>7, ProcessSteps
<1> QED
  BY <1>5, <1>6, <1>7 DEF CancelProgram, queueVars

\* The event loop of a build takes a signal from the queue of its QbsProcess.
LEMMA SignalTaken ==
  ASSUME IInv, NEW b \in Builds, inbox[b] # <<>>, inbox' = [inbox EXCEPT ![b] = Tail(@)],
         UNCHANGED <<phase, launcher, socket>>
  PROVE  /\ b \in Running /\ b \in Running' /\ launcher # "starting"
         /\ inbox' \in [Builds -> Seq([type : {"ready", "socketError"}] \cup Answer)]
         /\ \A c \in Builds : c # b => inbox'[c] = inbox[c]
         /\ PartOf(inbox'[b], inbox[b], Answer)
         /\ socket => None(inbox'[b], {[type |-> "socketError"]})
         /\ OnlyLast(inbox'[b], [type |-> "socketError"])
         /\ Head(inbox[b]).type \in {"error", "finished"} => Told(b) /\ None(inbox'[b], Answer)
         /\ Head(inbox[b]).type = "socketError" => ~socket /\ inbox'[b] = <<>>
<1> USE DEF IInv
<1> DEFINE T == [type : {"ready", "socketError"}] \cup Answer
           lost == [type |-> "socketError"]
<1>1. b \in Running /\ b \in Running' /\ launcher # "starting"
  BY DEF BuildInv, Running
<1>2. inbox \in [Builds -> Seq(T)] /\ inbox[b] \in Seq(T)
  BY DEF TypeOK
<1>3. /\ socket => None(inbox[b], {lost})
      /\ OnlyLast(inbox[b], lost) /\ One(inbox[b], Answer)
  BY DEF BuildInv, ProgressInv, AnswerInv
<1>4. \A a \in T : /\ a.type \in {"error", "finished"} => a \in Answer
                   /\ a.type = "socketError" => a = lost
  BY DEF Answer
<1> HIDE DEF T, lost
<1>5. Tail(inbox[b]) \in Seq(T) /\ Head(inbox[b]) \in T
  BY <1>2, TakeFromQueue
<1>6. /\ inbox' \in [Builds -> Seq(T)] /\ inbox'[b] = Tail(inbox[b])
      /\ \A c \in Builds : c # b => inbox'[c] = inbox[c]
  BY <1>2, <1>5
<1>7. PartOf(inbox'[b], inbox[b], Answer)
  BY <1>2, <1>6, PartOfQueue
<1>8. socket => None(inbox'[b], {lost})
  BY <1>2, <1>3, <1>6, TakeFromQueue
<1>9. OnlyLast(inbox'[b], lost)
  BY <1>2, <1>3, <1>6, LastOfQueue
<1>10. Head(inbox[b]).type \in {"error", "finished"} => Told(b) /\ None(inbox'[b], Answer)
  <2>1. Head(inbox[b]).type \in {"error", "finished"} => Head(inbox[b]) \in Answer
    BY <1>4, <1>5
  <2> QED
    BY <1>2, <1>3, <1>6, <2>1, TakeFromQueue DEF Told
<1>11. Head(inbox[b]).type = "socketError" => ~socket /\ inbox'[b] = <<>>
  <2>1. Head(inbox[b]).type = "socketError" => Head(inbox[b]) = lost
    BY <1>4, <1>5
  <2>2. Head(inbox[b]) = lost => ~None(inbox[b], {lost})
    BY <1>2, TakeFromQueue
  <2>3. Head(inbox[b]) = lost => inbox'[b] = <<>>
    BY <1>2, <1>3, <1>6, LastOfQueue
  <2> QED
    BY <1>3, <2>1, <2>2, <2>3
<1> QED
  BY <1>1, <1>6, <1>7, <1>8, <1>9, <1>10, <1>11 DEF T, lost

\* QbsProcess::handleSocketReady(), handleSocketError(), handleErrorPacket() and
\* handleFinishedPacket()
LEMMA HandleSignalStep ==
  ASSUME IInv, NEW b \in Builds, HandleSignal(b)
  PROVE  IInv'
<1> USE DEF IInv
<1>1. /\ inbox[b] # <<>> /\ inbox' = [inbox EXCEPT ![b] = Tail(@)]
      /\ UNCHANGED <<canceled, starts, stops, stopped>> /\ UNCHANGED <<phase, interfaceVars, launcherVars>>
      /\ UNCHANGED <<launcher, socket, toLauncher, toQbs, programs>>
  BY DEF HandleSignal, counters, interfaceVars, launcherVars
<1> DEFINE signal == Head(inbox[b]).type
           n == process[b].n
           e == process[b].socketError
<1>2. n \in 0 .. MaxPrograms /\ e \in BOOLEAN /\ process[b].state \in {"NotRunning", "Starting", "Running"}
  BY DEF TypeOK
<1>3. \/ /\ signal = "ready" /\ process[b].state = "Starting"
         /\ process' = ProcessWith(b, "Running", FALSE, n) /\ SendData(StartPacket(b, n))
      \/ /\ signal = "ready" /\ process[b].state # "Starting"
         /\ process' = ProcessWith(b, process[b].state, FALSE, n) /\ UNCHANGED queueVars
      \/ /\ signal = "socketError"
         /\ process' = ProcessWith(b, "NotRunning", TRUE, n) /\ UNCHANGED queueVars
      \/ /\ signal \in {"error", "finished"}
         /\ process' = ProcessWith(b, "NotRunning", e, n) /\ UNCHANGED queueVars
  <2>1. /\ [process EXCEPT ![b].socketError = FALSE, ![b].state = "Running"] = ProcessWith(b, "Running", FALSE, n)
        /\ [process EXCEPT ![b].socketError = FALSE] = ProcessWith(b, process[b].state, FALSE, n)
    BY <1>2, ProcessFields
  <2>2. [process EXCEPT ![b].socketError = TRUE, ![b].state = "NotRunning"] = ProcessWith(b, "NotRunning", TRUE, n)
    BY <1>2, ProcessFields
  <2>3. [process EXCEPT ![b].state = "NotRunning"] = ProcessWith(b, "NotRunning", e, n)
    BY <1>2, ProcessFields
  <2> QED
    BY <2>1, <2>2, <2>3 DEF HandleSignal
<1>4. /\ process' \in ProcessType /\ process'[b].n = n
      /\ \A c \in Builds : c # b => process'[c] = process[c]
  BY <1>2, <1>3, ProcessEffect
<1>5. /\ b \in Running /\ b \in Running' /\ launcher # "starting"
      /\ inbox' \in [Builds -> Seq([type : {"ready", "socketError"}] \cup Answer)]
      /\ \A c \in Builds : c # b => inbox'[c] = inbox[c]
      /\ PartOf(inbox'[b], inbox[b], Answer)
      /\ socket => None(inbox'[b], {[type |-> "socketError"]})
      /\ OnlyLast(inbox'[b], [type |-> "socketError"])
      /\ signal \in {"error", "finished"} => Told(b) /\ None(inbox'[b], Answer)
      /\ signal = "socketError" => ~socket /\ inbox'[b] = <<>>
  BY <1>1, SignalTaken
<1>6. /\ canceled' \in [Builds -> {"no", "requested", "done"}] /\ stops' \in 0 .. MaxStops
      /\ starts' \in 0 .. MaxPrograms /\ starts <= starts' /\ n <= starts'
      /\ stopped' \subseteq Builds \X (1 .. MaxPrograms) /\ stopped \subseteq stopped'
  BY <1>1, BoundsAssumption DEF TypeOK, BuildInv
<1>7. process'[b].state # "NotRunning" => process[b].state # "NotRunning"
  BY <1>2, <1>3, ProcessEffect
<1>8. BuildInv(b)'
  BY <1>1, <1>4, <1>5, <1>6, <1>7 DEF BuildInv, Pending
<1>9. PartOf(toQbs', toQbs, Answers(b))
  BY <1>1, QueueTypes, PartOfQueue
<1>10. CASE signal = "ready" /\ process[b].state = "Starting"
  <2>1. process'[b].state = "Running" /\ SendData(StartPacket(b, n))
    BY <1>2, <1>3, <1>10, ProcessEffect
  <2>2. n \in 1 .. MaxPrograms
    <3>1. n # 0 /\ MaxPrograms \in Nat
      BY <1>10, BoundsAssumption DEF BuildInv, Pending
    <3> QED
      BY <1>2, <3>1
  <2>3. StartPacket(b, n) \in Packet /\ StartPacket(b, n).build = b
    BY <2>2 DEF StartPacket, Packet
  <2>4. Pipe' = Pipe \/ Pipe' = Append(Pipe, StartPacket(b, n))
    BY <1>1, <2>1, <2>3, SendEffect
  <2>5. TypeOK' => ProgressInv(b)'
    BY <1>1, <1>4, <1>5, <1>10, <2>1, <2>2, <2>4, AskMove
  <2>6. \E p \in Packet : p.build = b /\ SendData(p)
    BY <2>1, <2>3
  <2> QED
    BY <1>1, <1>4, <1>5, <1>6, <1>8, <2>5, <2>6, ProcessSteps
<1>11. CASE ~(signal = "ready" /\ process[b].state = "Starting")
  <2>1. UNCHANGED queueVars
    BY <1>3, <1>11
  <2>2. Pipe' = Pipe
    BY <1>1, <2>1 DEF Pipe, queueVars
  <2>3. PartOf(Pipe', Pipe, Starts(b) \cup Stops(b))
    BY <2>2, QueueTypes, PartOfQueue
  <2>4. ASSUME TypeOK' PROVE ProgressInv(b)'
    <3>1. CASE signal = "ready"
      <4>1. process'[b].state = process[b].state
        BY <1>2, <1>3, <1>11, <3>1, ProcessEffect
      <4> QED
        BY <1>1, <1>4, <1>5, <1>9, <2>3, <2>4, <4>1, FewerMove
    <3>2. CASE signal # "ready"
      <4>1. ~Asked(b)' /\ ~Runs(b)' /\ ~Answered(b)' /\ ~Told(b)'
        <5>1. CASE signal \in {"error", "finished"}
          <6>1. ~Asked(b) /\ ~Runs(b) /\ ~Answered(b) /\ None(inbox'[b], Answer)
            BY <1>5, <5>1 DEF ProgressInv, TokenInv
          <6> QED
            BY <1>1, <2>2, <6>1 DEF Asked, Runs, Answered, Told, Starts, Answers
        <5>2. CASE signal = "socketError"
          <6>1. ~socket /\ inbox'[b] = <<>>
            BY <1>5, <5>2
          <6>2. launcher # "up" /\ toQbs = <<>> /\ programs = NoPrograms
            BY <6>1 DEF ConnectionInv
          <6>3. Pipe = <<>>
            BY <6>2 DEF Pipe
          <6> QED
            BY <1>1, <2>2, <6>1, <6>2, <6>3 DEF Asked, Runs, Answered, Told, None, NoPrograms, NoProgram
        <5> QED
          BY <1>3, <3>2, <5>1, <5>2
      <4> QED
        BY <1>1, <1>4, <1>5, <1>9, <2>3, <2>4, <4>1, KeepsProgress
    <3> QED
      BY <3>1, <3>2
  <2> QED
    BY <1>1, <1>4, <1>5, <1>6, <1>8, <2>1, <2>4, ProcessSteps
<1> QED
  BY <1>10, <1>11

(***************************************************************************)
(* The theorems                                                              *)
(***************************************************************************)
\* The invariant holds before the first build.
LEMMA StartsWell == Init => IInv
<1> SUFFICES ASSUME Init PROVE IInv
  OBVIOUS
<1>1. /\ Running = {} /\ Cardinality(Builds) \in Nat /\ Cardinality(Running) = 0
      /\ \A b \in Builds : phase[b] = "new"
  <2>1. Running = {} /\ \A b \in Builds : phase[b] = "new"
    BY DEF Init, Running
  <2> QED
    BY <2>1, BuildsAssumption, FS_CardinalityType, FS_EmptySet
<1>2. TypeOK
  <2>1. {server, socket, posted, noticed} \subseteq BOOLEAN
    BY DEF Init
  <2>2. requests \in Seq(Packet) /\ toLauncher \in Seq(Packet)
    BY DEF Init
  <2>3. toQbs \in Seq([type : {"closed"}] \cup Answer)
    BY DEF Init
  <2>4. inbox \in [Builds -> Seq([type : {"ready", "socketError"}] \cup Answer)]
    BY DEF Init
  <2>5. programs \in [Builds -> [n : 0 .. MaxPrograms, stop : {"Inactive", "Terminating", "Killing"}]]
    BY BoundsAssumption DEF Init, NoPrograms, NoProgram
  <2>6. process \in [Builds -> [state : {"NotRunning", "Starting", "Running"},
                               socketError : BOOLEAN, n : 0 .. MaxPrograms]]
    BY BoundsAssumption DEF Init
  <2>7. /\ phase \in [Builds -> {"new", "running", "done"}]
        /\ canceled \in [Builds -> {"no", "requested", "done"}]
        /\ launcher \in {"none", "starting", "up", "dead"} /\ stopped \subseteq Builds \X (1 .. MaxPrograms)
    BY DEF Init
  <2>8. /\ starts \in 0 .. MaxPrograms /\ stops \in 0 .. MaxStops /\ crashes \in 0 .. MaxCrashes
        /\ startRequests \in 0 .. Cardinality(Builds)
    BY <1>1, BoundsAssumption DEF Init
  <2> QED
    BY <2>1, <2>2, <2>3, <2>4, <2>5, <2>6, <2>7, <2>8 DEF TypeOK
<1>3. ConnectionInv
  BY <1>1 DEF Init, ConnectionInv, LauncherServesBuilds, OnlyLast
<1>4. ASSUME NEW b \in Builds
      PROVE  BuildInv(b) /\ ProgressInv(b)
  <2>1. /\ Pipe = <<>> /\ toQbs = <<>> /\ inbox[b] = <<>> /\ programs[b] = NoProgram
        /\ process[b] = [state |-> "NotRunning", socketError |-> FALSE, n |-> 0] /\ starts = 0
    BY DEF Init, Pipe, NoPrograms
  <2>2. BuildInv(b)
    BY <2>1 DEF BuildInv, Pending, None, OnlyLast
  <2>3. PipeInv(b) /\ AnswerInv(b)
    BY <2>1 DEF PipeInv, AnswerInv, None, One, Before
  <2>4. ProgramInv(b) /\ TokenInv(b)
    BY <2>1 DEF ProgramInv, TokenInv, Asked, Runs, Answered, Told, None, NoProgram
  <2> QED
    BY <2>2, <2>3, <2>4 DEF ProgressInv
<1> QED
  BY <1>2, <1>3, <1>4 DEF IInv

\* The steps of the main thread that only tell the builds to cancel.
LEMMA NoticingSteps ==
  ASSUME IInv, LauncherFailsToStart \/ NoticeCrash \/ \E b \in Builds : RequestCancel(b)
  PROVE  IInv'
<1>1. canceled \in [Builds -> {"no", "requested", "done"}] /\ noticed \in BOOLEAN
  BY FlagTypes DEF IInv, TypeOK
<1>2. CASE LauncherFailsToStart \/ NoticeCrash
  <2>1. canceled' \in [Builds -> {"no", "requested", "done"}]
    BY <1>1, <1>2 DEF LauncherFailsToStart, NoticeCrash, CancelBuilds
  <2> QED
    BY <1>2, <2>1, NoticeStep DEF LauncherFailsToStart, NoticeCrash
<1>3. ASSUME NEW b \in Builds, RequestCancel(b) PROVE IInv'
  <2>1. canceled' \in [Builds -> {"no", "requested", "done"}] /\ noticed' \in BOOLEAN
    BY <1>1, <1>3 DEF RequestCancel, interfaceVars
  <2> QED
    BY <1>3, <2>1, NoticeStep DEF RequestCancel, interfaceVars
<1> QED
  BY <1>2, <1>3

\* A command that runs out of time, and a build that is canceled.
LEMMA CancelingSteps ==
  ASSUME IInv, NEW b \in Builds, TimeOut(b) \/ CancelJobs(b)
  PROVE  IInv'
<1>1. /\ canceled \in [Builds -> {"no", "requested", "done"}]
      /\ stops \in 0 .. MaxStops /\ MaxStops \in Nat
  BY BoundsAssumption DEF IInv, TypeOK
<1>2. CASE TimeOut(b)
  <2>1. canceled' = canceled /\ stops' \in 0 .. MaxStops
    BY <1>1, <1>2 DEF TimeOut
  <2> QED
    BY <1>1, <1>2, <2>1, CancelProgramStep DEF TimeOut
<1>3. CASE CancelJobs(b)
  <2>1. canceled' \in [Builds -> {"no", "requested", "done"}]
    BY <1>1, <1>3 DEF CancelJobs
  <2> QED
    BY <1>1, <1>3, <2>1, CancelProgramStep DEF CancelJobs, counters
<1> QED
  BY <1>2, <1>3

\* Nothing happens.
LEMMA Unmoved ==
  ASSUME IInv, UNCHANGED vars
  PROVE  IInv'
<1>1. noticed \in BOOLEAN /\ canceled \in [Builds -> {"no", "requested", "done"}]
  BY FlagTypes DEF IInv, TypeOK
<1> QED
  BY <1>1, NoticeStep DEF vars, counters, queueVars, launcherVars

\* Every step keeps the invariant.
LEMMA Step == IInv /\ [Next]_vars => IInv'
<1> SUFFICES ASSUME IInv, [Next]_vars PROVE IInv'
  OBVIOUS
<1>1. CASE LauncherConnects \/ LauncherCrashes \/ ReadSocket \/ HandleRequests \/ HandlePacket
  BY <1>1, ConnectStep, CrashStep, ReadSocketStep, HandleRequestsStep, HandlePacketStep
<1>2. CASE LauncherFailsToStart \/ NoticeCrash
  BY <1>2, NoticingSteps
<1>3. ASSUME NEW b \in Builds, StartBuild(b) \/ FinishBuild(b) \/ RequestCancel(b) PROVE IInv'
  BY <1>3, StartBuildStep, FinishBuildStep, NoticingSteps
<1>4. ASSUME NEW b \in Builds,
             StartProgram(b) \/ TimeOut(b) \/ CancelJobs(b) \/ HandleSignal(b)
      PROVE  IInv'
  BY <1>4, StartProgramStep, CancelingSteps, HandleSignalStep
<1>5. ASSUME NEW b \in Builds,
             StopTimer(b) \/ \E type \in {"error", "finished"} : ProgramEnds(b, type)
      PROVE  IInv'
  BY <1>5, StopTimerStep, ProgramEndsStep
<1>6. CASE UNCHANGED vars
  BY <1>6, Unmoved
<1> QED
  BY <1>1, <1>2, <1>3, <1>4, <1>5, <1>6 DEF Next

\* The invariant holds for all numbers of builds, programs, timeouts and crashes.
THEOREM Invariance == Spec => []IInv
<1>1. Init => IInv
  BY StartsWell
<1>2. IInv /\ [Next]_vars => IInv'
  BY Step
<1> QED
  BY <1>1, <1>2, PTL DEF Spec

\* LauncherInterface::doStart() and doStop() keep the launcher exactly as long as a build is
\* running, however many builds overlap, and whatever fails or crashes.
THEOREM LauncherCounted == Spec => []LauncherServesBuilds
<1>1. IInv => LauncherServesBuilds
  BY DEF IInv, ConnectionInv
<1> QED
  BY <1>1, Invariance, PTL

\* No program is terminated or killed that nobody wanted to stop: neither a late stop packet nor
\* the timer of Process::cancel() ever reaches the next program of the same QbsProcess.
THEOREM OnlyStoppedPrograms == Spec => []InnocentProgramsLive
<1>1. IInv => InnocentProgramsLive
  BY DEF IInv, ProgressInv, ProgramInv, InnocentProgramsLive
<1> QED
  BY <1>1, Invariance, PTL

\* The invariant says of the queues what TokensMatch says of them.
LEMMA TokensOfQueues ==
  ASSUME IInv
  PROVE  TokensMatch
<1> USE DEF IInv
<1>1. ASSUME NEW b \in Running
      PROVE  LET sent == {i \in DOMAIN toQbs : toQbs[i].type # "closed" /\ toQbs[i].build = b}
                 received == {i \in DOMAIN inbox[b] : inbox[b][i].type \in {"error", "finished"}}
                 awaited(a) == process[b].state = "Running" /\ a.n = process[b].n IN
             /\ \A i \in sent : awaited(toQbs[i]) /\ sent = {i} /\ received = {}
             /\ \A i \in received : awaited(inbox[b][i]) /\ received = {i}
  <2> DEFINE sent == {i \in DOMAIN toQbs : toQbs[i].type # "closed" /\ toQbs[i].build = b}
             received == {i \in DOMAIN inbox[b] : inbox[b][i].type \in {"error", "finished"}}
             awaited(a) == process[b].state = "Running" /\ a.n = process[b].n
  <2>1. b \in Builds /\ AnswerInv(b) /\ TokenInv(b)
    BY DEF Running, ProgressInv
  <2>2. \A i \in sent : toQbs[i] \in Answers(b)
    <3>1. \A i \in DOMAIN toQbs : toQbs[i] \in [type : {"closed"}] \cup Answer
      BY QueueTypes
    <3> QED
      BY <3>1 DEF Answers
  <2>3. \A i \in received : inbox[b][i] \in Answer
    <3>1. \A i \in DOMAIN inbox[b] : inbox[b][i] \in [type : {"ready", "socketError"}] \cup Answer
      BY <2>1, QueueTypes
    <3> QED
      BY <3>1
  <2>4. ASSUME NEW i \in sent PROVE awaited(toQbs[i]) /\ sent = {i} /\ received = {}
    <3>1. Answered(b) /\ toQbs[i] \notin OldAnswers(b)
      BY <2>1, <2>2 DEF Answered, None, AnswerInv
    <3>2. process[b].state = "Running" /\ ~Told(b)
      BY <2>1, <3>1 DEF TokenInv
    <3>3. toQbs[i].n = process[b].n
      BY <2>2, <3>1 DEF OldAnswers, Answers
    <3>4. sent = {i}
      BY <2>1, <2>2 DEF AnswerInv, One
    <3>5. received = {}
      BY <2>3, <3>2 DEF Told, None
    <3> QED
      BY <3>2, <3>3, <3>4, <3>5
  <2>5. ASSUME NEW i \in received PROVE awaited(inbox[b][i]) /\ received = {i}
    <3>1. Told(b) /\ inbox[b][i] \notin OldAnswers(b)
      BY <2>1, <2>3 DEF Told, None, AnswerInv
    <3>2. process[b].state = "Running"
      BY <2>1, <3>1 DEF TokenInv
    <3>3. inbox[b][i].n = process[b].n
      BY <2>3, <3>1 DEF OldAnswers
    <3>4. received = {i}
      BY <2>1, <2>3 DEF AnswerInv, One
    <3> QED
      BY <3>2, <3>3, <3>4
  <2> QED
    BY <2>4, <2>5
<1>2. AnswersMatch
  BY <1>1 DEF AnswersMatch
<1>3. NoStrayPrograms
  BY DEF NoStrayPrograms, ProgressInv, ProgramInv, TokenInv, Runs, BuildInv, Pending, Running
<1>4. StartsAreObeyed
  <2> SUFFICES ASSUME toLauncher # <<>>, Head(toLauncher).type = "start"
               PROVE  programs[Head(toLauncher).build].n = 0
    BY DEF StartsAreObeyed
  <2>1. PICK p \in Packet : p = Head(toLauncher)
    BY QueueTypes, TakeFromQueue
  <2>2. PICK b \in Builds : p.build = b
    BY DEF Packet
  <2>3. p \in Starts(b)
    BY <2>1, <2>2 DEF Starts
  <2>4. launcher = "up"
    BY DEF ConnectionInv
  <2>5. Pipe # <<>> /\ Head(Pipe) = p
    <3>1. requests \in Seq(Packet) /\ toLauncher \in Seq(Packet)
      BY DEF TypeOK
    <3>2. CASE posted
      BY <2>1, <2>4, <3>1, <3>2, JoinedQueues DEF Pipe
    <3>3. CASE ~posted
      BY <2>1, <2>4, <3>3 DEF Pipe
    <3> QED
      BY <3>2, <3>3
  <2>6. Asked(b)
    BY <2>3, <2>5, QueueTypes, TakeFromQueue DEF Asked
  <2> QED
    BY <2>1, <2>2, <2>6 DEF ProgressInv, TokenInv, Runs
<1> QED
  BY <1>2, <1>3, <1>4 DEF TokensMatch

\* Every answer that is on its way is for the program its QbsProcess waits for and the only one,
\* the launcher runs no program that nobody waits for, and LauncherSocketHandler::handleStartPacket()
\* never drops a start.  QbsProcess and the launcher know a program by the QbsProcess it is of and
\* not by its number, so that this rests on the order of their packets.
THEOREM TokensKept == Spec => []TokensMatch
<1>1. IInv => TokensMatch
  BY TokensOfQueues
<1> QED
  BY <1>1, Invariance, PTL
===============================================================================
