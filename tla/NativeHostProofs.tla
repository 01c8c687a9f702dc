--------------------------- MODULE NativeHostProofs ---------------------------
(***************************************************************************)
(* Proofs about NativeHost, with and without a game launcher: what its     *)
(* three threads of control still owe to the processes and the layers they *)
(* have started, whatever close(), a failing offer and a failing sink do   *)
(* to one another.                                                         *)
(***************************************************************************)
EXTENDS NativeHost, ManagedProcessProofs, SequenceTheorems

(***************************************************************************)
(* What a thread has left to do, as a set.                                 *)
(***************************************************************************)
StepsIn(s) == {s[i] : i \in 1..Len(s)}

Owed(t) == StepsIn(todo[t])

ForwardSteps ==
  {"start game", "start publisher", "start encoder", "start capture", "publish", "negotiate",
   "await peer", "answer"}

AwaitSteps == {"await game", "await encoder", "await capture"}

SinkSteps ==
  {"stop pipeline", "stop encoder", "stop capture", "await encoder", "await capture",
   "pipeline stopped"}

CloseSteps ==
  SinkSteps \cup {"end session", "stop publisher", "publisher stopped", "stop game if started",
                  "stop game", "await game", "game stopped"}

CatchSteps == CloseSteps \cup {"stop publisher if started", "pipeline failed", "give up"}

StepName == ForwardSteps \cup CatchSteps

\* The rests of the offer's way forward.
Answering == <<"answer">>
Negotiating == <<"negotiate", "answer">>
Publishing == <<"publish", "negotiate", "answer">>
Capturing == <<"start capture", "publish", "negotiate", "answer">>
Encoding == <<"start encoder", "start capture", "publish", "negotiate", "answer">>
Preparing ==
  <<"start publisher", "start encoder", "start capture", "publish", "negotiate", "answer">>
Launching == <<"start game">> \o Preparing
AwaitingPeer == <<"await peer">> \o Answering

Forward == {Answering, AwaitingPeer, Negotiating, Publishing, Capturing, Encoding, Preparing,
            Launching}

Goes == "answer" \in Owed("offer")

NativeTypes ==
  /\ todo \in [Caller -> Seq(StepName)]
  /\ runtime \in {"listening", "connected", "revived", "error", "closed"}
  /\ offered \in BOOLEAN /\ ended \in BOOLEAN /\ started \in BOOLEAN /\ gameStarted \in BOOLEAN
  /\ publisher \in {"unconfigured", "ready", "active", "failed", "stopped"}
  /\ pipeline \in {"idle", "starting", "running", "stopping", "stopped", "failed"}
  /\ answer \in {"none", "accepted", "rejected"}

\* Which steps a thread can owe; an await is never behind another step.
ThreadsInv ==
  /\ todo["offer"] \in Forward \/ Owed("offer") \subseteq CatchSteps
  /\ Owed("close") \subseteq CloseSteps
  /\ Owed("sink") \subseteq SinkSteps
  /\ \A t \in Caller : todo[t] # <<>> => StepsIn(Tail(todo[t])) \cap AwaitSteps = {}
  /\ todo["close"] # <<>> =>
       /\ "end session" \notin StepsIn(Tail(todo["close"]))
       /\ ended \/ At("close", "end session")

\* The other threads stand still while the offer goes forward.
TurnInv == Goes /\ ~Waiting("offer") => Waiting("close") /\ Waiting("sink")

\* How far the offer has come.
OfferInv ==
  /\ Goes => offered /\ runtime \in {"listening", "closed"}
  /\ Goes /\ ended => BridgeClosed
  /\ Owed("close") # {} => BridgeClosed
  /\ "publish" \in Owed("offer") => ~started /\ publisher # "active" /\ Owed("sink") = {}
  /\ Goes /\ "publish" \notin Owed("offer") => started
  /\ "start publisher" \in Owed("offer") =>
       /\ publisher = "unconfigured" /\ pipeline = "idle"
       /\ os["encoder"] = "none" /\ os["capture"] = "none"
       /\ \A t \in Caller :
            Owed(t) \cap {"stop pipeline", "pipeline stopped", "publisher stopped"} = {}
  /\ Goes /\ HasGame /\ "start game" \notin Owed("offer") /\ ~BridgeClosed => gameStarted
  /\ "start game" \in Owed("offer") =>
       /\ ~gameStarted
       /\ \A t \in Caller : Owed(t) \cap {"stop game", "await game", "game stopped"} = {}

\* Before the first offer nothing has been done.
FreshInv ==
  runtime = "listening" /\ ~offered =>
    /\ ~ended /\ ~started /\ ~gameStarted
    /\ publisher = "unconfigured" /\ pipeline = "idle"
    /\ \A p \in Proc : os[p] = "none"
    /\ Owed("offer") \subseteq {"give up"} /\ Owed("close") = {} /\ Owed("sink") = {}

Unsafe(p) == os[p] \in {"spawning", "alive"} /\ signal[p] # "SIGKILL"

Owes(steps) == \E t \in Caller : Owed(t) \cap steps # {}

\* A stop() that has returned left nothing that can go on.
ReturnedInv ==
  \A t \in Caller, p \in Proc :
    At(t, Awaits[p]) /\ stopping[p][t] = "returned" => ~Unsafe(p)

\* The session lives on, and the next close() will clean up.
Alive == runtime # "closed" /\ offered /\ "give up" \notin Owed("offer")

PublisherInv ==
  ~PublisherIdle => Goes \/ Alive \/ Owes({"stop publisher", "publisher stopped"})

GameInv ==
  /\ gameStarted => Goes \/ Alive \/ Owes({"stop game if started", "game stopped"})
  /\ Unsafe("game") =>
       gameStarted \/ "start game" \in Owed("offer") \/ Owes({"stop game", "await game"})
  /\ Owes({"game stopped"}) /\ Unsafe("game") => Owes({"stop game", "await game"})

Busy == pipeline \in {"starting", "running", "stopping"}

StopOf(p) == {Stops[p], Awaits[p]}

\* The offer has published after close() was there: it finds the session ended, and
\* stops the pipeline before any other thread has its turn.
Belated ==
  /\ ended /\ started /\ publisher = "active" /\ pipeline = "running"
  /\ Waiting("close") /\ Waiting("sink")
  /\ todo["offer"] \in
       {Negotiating, AcceptCatch, Tail(AcceptCatch),
        <<"stop pipeline", "publisher stopped">> \o Tail(Tail(AcceptCatch))}

\* Who stops the encoder and the capture.
PipelineInv ==
  /\ \A p \in {"encoder", "capture"} :
       Unsafe(p) => Busy \/ "publish" \in Owed("offer") \/ Owes(StopOf(p))
  /\ \A p \in {"encoder", "capture"} :
       Owes({"pipeline stopped"}) /\ Unsafe(p) =>
         "publish" \in Owed("offer") \/ Belated \/ Owes(StopOf(p))
  /\ \A p \in {"encoder", "capture"} :
       "pipeline failed" \in Owed("offer") /\ Unsafe(p) => Owes(StopOf(p))
  /\ Busy => ~PublisherIdle \/ Owes({"stop pipeline", "pipeline stopped"})
  /\ Owes({"publisher stopped"}) /\ Busy =>
       Belated \/ Owes({"stop pipeline", "pipeline stopped"})
  /\ "publish" \in Owed("offer") =>
       (Owes({"pipeline stopped"}) \/ Owes({"publisher stopped"}) => ended)

NativeInv ==
  /\ ProcessInv /\ NativeTypes /\ ThreadsInv /\ TurnInv /\ OfferInv /\ FreshInv
  /\ ReturnedInv /\ PublisherInv /\ GameInv /\ PipelineInv

-----------------------------------------------------------------------------
(***************************************************************************)
(* Sequences of steps.                                                     *)
(***************************************************************************)
LEMMA InNone == StepsIn(<<>>) = {}
BY DEF StepsIn

LEMMA SeqOne == ASSUME NEW S, NEW a \in S PROVE <<a>> \in Seq(S)
OBVIOUS

LEMMA InOne == ASSUME NEW a PROVE StepsIn(<<a>>) = {a}
BY DEF StepsIn

LEMMA SeqTwo == ASSUME NEW S, NEW a \in S, NEW b \in S PROVE <<a, b>> \in Seq(S)
OBVIOUS

LEMMA InTwo == ASSUME NEW a, NEW b PROVE StepsIn(<<a, b>>) = {a, b}
BY DEF StepsIn

LEMMA TailTwo == ASSUME NEW a, NEW b PROVE Tail(<<a, b>>) = <<b>>
OBVIOUS

LEMMA SeqThree == ASSUME NEW S, NEW a \in S, NEW b \in S, NEW c \in S PROVE <<a, b, c>> \in Seq(S)
OBVIOUS

LEMMA InThree == ASSUME NEW a, NEW b, NEW c PROVE StepsIn(<<a, b, c>>) = {a, b, c}
BY DEF StepsIn

LEMMA TailThree == ASSUME NEW a, NEW b, NEW c PROVE Tail(<<a, b, c>>) = <<b, c>>
OBVIOUS

LEMMA SeqFour ==
  ASSUME NEW S, NEW a \in S, NEW b \in S, NEW c \in S, NEW d \in S
  PROVE  <<a, b, c, d>> \in Seq(S)
OBVIOUS

LEMMA TailFour == ASSUME NEW a, NEW b, NEW c, NEW d PROVE Tail(<<a, b, c, d>>) = <<b, c, d>>
OBVIOUS

LEMMA SeqFive ==
  ASSUME NEW S, NEW a \in S, NEW b \in S, NEW c \in S, NEW d \in S, NEW e \in S
  PROVE  <<a, b, c, d, e>> \in Seq(S)
OBVIOUS

LEMMA TailFive ==
  ASSUME NEW a, NEW b, NEW c, NEW d, NEW e
  PROVE  Tail(<<a, b, c, d, e>>) = <<b, c, d, e>>
OBVIOUS

LEMMA SeqSix ==
  ASSUME NEW S, NEW a \in S, NEW b \in S, NEW c \in S, NEW d \in S, NEW e \in S, NEW f \in S
  PROVE  <<a, b, c, d, e, f>> \in Seq(S)
OBVIOUS

LEMMA TailSix ==
  ASSUME NEW a, NEW b, NEW c, NEW d, NEW e, NEW f
  PROVE  Tail(<<a, b, c, d, e, f>>) = <<b, c, d, e, f>>
OBVIOUS

LEMMA InBoth ==
  ASSUME NEW S, NEW u \in Seq(S), NEW v \in Seq(S)
  PROVE  StepsIn(u \o v) = StepsIn(u) \cup StepsIn(v)
<1>1. \A i \in 1..Len(u) : (u \o v)[i] = u[i] /\ i \in 1..Len(u \o v)
  OBVIOUS
<1>2. \A i \in 1..Len(v) : (u \o v)[Len(u) + i] = v[i] /\ Len(u) + i \in 1..Len(u \o v)
  OBVIOUS
<1>3. \A i \in 1..Len(u \o v) :
        i \in 1..Len(u) \/ (i - Len(u) \in 1..Len(v) /\ (u \o v)[i] = v[i - Len(u)])
  OBVIOUS
<1> QED BY <1>1, <1>2, <1>3 DEF StepsIn

LEMMA InTail ==
  ASSUME NEW S, NEW s \in Seq(S), s # <<>>
  PROVE  StepsIn(s) = {Head(s)} \cup StepsIn(Tail(s))
<1>1. \A i \in 1..Len(Tail(s)) : Tail(s)[i] = s[i + 1] /\ i + 1 \in 1..Len(s)
  OBVIOUS
<1>2. \A i \in 1..Len(s) : i = 1 \/ (i - 1 \in 1..Len(Tail(s)) /\ Tail(s)[i - 1] = s[i])
  OBVIOUS
<1> QED BY <1>1, <1>2 DEF StepsIn

LEMMA SeqBoth == ASSUME NEW S, NEW u \in Seq(S), NEW v \in Seq(S) PROVE u \o v \in Seq(S)
OBVIOUS

LEMMA TailOfBoth ==
  ASSUME NEW S, NEW u \in Seq(S), NEW v \in Seq(S), u # <<>>
  PROVE  Tail(u \o v) = Tail(u) \o v
OBVIOUS

LEMMA HeadOfBoth ==
  ASSUME NEW S, NEW u \in Seq(S), NEW v \in Seq(S), u # <<>>
  PROVE  Head(u \o v) = Head(u) /\ u \o v # <<>>
OBVIOUS


LEMMA NoneBefore == ASSUME NEW S, NEW s \in Seq(S) PROVE <<>> \o s = s
OBVIOUS

\* The steps of each process.
LEMMA StepNames ==
  /\ StepOf["game"] = "start game" /\ StepOf["encoder"] = "start encoder"
  /\ StepOf["capture"] = "start capture"
  /\ Stops["game"] = "stop game" /\ Stops["encoder"] = "stop encoder"
  /\ Stops["capture"] = "stop capture"
  /\ Awaits["game"] = "await game" /\ Awaits["encoder"] = "await encoder"
  /\ Awaits["capture"] = "await capture"
  /\ \A p \in Proc : /\ StepOf[p] \in ForwardSteps /\ StepOf[p] \notin CatchSteps
                     /\ Stops[p] \in CatchSteps
                     /\ Awaits[p] \in CatchSteps \cap AwaitSteps /\ Awaits[p] \notin ForwardSteps
<1>1. /\ StepOf["game"] = "start game" /\ StepOf["encoder"] = "start encoder"
      /\ StepOf["capture"] = "start capture"
  BY DEF StepOf
<1>2. /\ Stops["game"] = "stop game" /\ Stops["encoder"] = "stop encoder"
      /\ Stops["capture"] = "stop capture"
  BY DEF Stops
<1>3. /\ Awaits["game"] = "await game" /\ Awaits["encoder"] = "await encoder"
      /\ Awaits["capture"] = "await capture"
  BY DEF Awaits
<1> QED
  BY <1>1, <1>2, <1>3, NativeAssumption, ZenonT(60)
  DEF ForwardSteps, CatchSteps, CloseSteps, SinkSteps, AwaitSteps

\* The catch blocks: how they begin, and what they hold.
LEMMA CloseMediaIs ==
  /\ CloseMedia \in Seq(StepName) /\ CloseMedia # <<>>
  /\ StepsIn(CloseMedia) = {"end session", "stop publisher", "stop game if started"}
  /\ Head(CloseMedia) = "end session"
  /\ StepsIn(Tail(CloseMedia)) = {"stop publisher", "stop game if started"}
<1>1. "end session" \in StepName /\ "stop publisher" \in StepName
      /\ "stop game if started" \in StepName
  BY DEF StepName, CatchSteps, CloseSteps
<1>2. CloseMedia \in Seq(StepName)
  BY <1>1, SeqThree DEF CloseMedia
<1>6. CloseMedia # <<>> /\ Head(CloseMedia) = "end session"
  BY DEF CloseMedia
<1>3. StepsIn(CloseMedia) = {"end session", "stop publisher", "stop game if started"}
  BY InThree DEF CloseMedia
<1>4. Tail(CloseMedia) = <<"stop publisher", "stop game if started">>
  BY TailThree DEF CloseMedia
<1>5. StepsIn(Tail(CloseMedia)) = {"stop publisher", "stop game if started"}
  BY <1>4, InTwo
<1> QED BY <1>2, <1>3, <1>5, <1>6

LEMMA RuntimeCatchIs ==
  /\ RuntimeCatch \in Seq(StepName) /\ RuntimeCatch # <<>>
  /\ StepsIn(RuntimeCatch) =
       {"end session", "stop publisher", "stop game if started", "give up"}
<1>1. "give up" \in StepName
  BY DEF StepName, CatchSteps
<1>2. <<"give up">> \in Seq(StepName)
  BY <1>1, SeqOne
<1>3. StepsIn(<<"give up">>) = {"give up"}
  BY InOne
<1>6. CloseMedia \in Seq(StepName) /\ CloseMedia # <<>>
  BY CloseMediaIs
<1>4. StepsIn(RuntimeCatch) = StepsIn(CloseMedia) \cup StepsIn(<<"give up">>)
  BY <1>2, <1>6, InBoth, ZenonT(60) DEF RuntimeCatch
<1>5. RuntimeCatch \in Seq(StepName) /\ RuntimeCatch # <<>>
  BY <1>2, <1>6, SeqBoth, HeadOfBoth DEF RuntimeCatch
<1> QED BY <1>3, <1>4, <1>5, CloseMediaIs

LEMMA AcceptCatchIs ==
  /\ AcceptCatch \in Seq(StepName) /\ AcceptCatch # <<>>
  /\ StepsIn(AcceptCatch) =
       {"end session", "stop publisher if started", "stop game if started", "stop publisher",
        "give up"}
  /\ Head(AcceptCatch) = "end session"
  /\ Tail(AcceptCatch) \in Seq(StepName) /\ Tail(AcceptCatch) # <<>>
  /\ StepsIn(Tail(AcceptCatch)) =
       {"end session", "stop publisher if started", "stop game if started", "stop publisher",
        "give up"}
  /\ Head(Tail(AcceptCatch)) = "stop publisher if started"
  /\ Tail(Tail(AcceptCatch)) \in Seq(StepName)
  /\ StepsIn(Tail(Tail(AcceptCatch))) =
       {"end session", "stop game if started", "stop publisher", "give up"}
<1> DEFINE f1 == <<"end session", "stop publisher if started", "stop game if started">>
           f2 == <<"stop publisher if started", "stop game if started">>
           f3 == <<"stop game if started">>
<1>1. "end session" \in StepName /\ "stop publisher if started" \in StepName
      /\ "stop game if started" \in StepName
  BY DEF StepName, CatchSteps, CloseSteps
<1>2. f1 \in Seq(StepName) /\ f2 \in Seq(StepName) /\ f3 \in Seq(StepName)
  BY <1>1, SeqOne, SeqTwo, SeqThree
<1>3. f1 # <<>> /\ f2 # <<>> /\ f3 # <<>> /\ Tail(f1) = f2 /\ Tail(f2) = f3
  BY TailTwo, TailThree
<1>4. Head(f1) = "end session" /\ Head(f2) = "stop publisher if started"
  OBVIOUS
<1>5. StepsIn(f1) = {"end session", "stop publisher if started", "stop game if started"}
  BY InThree
<1>6. StepsIn(f2) = {"stop publisher if started", "stop game if started"}
  BY InTwo
<1>7. StepsIn(f3) = {"stop game if started"}
  BY InOne
<1>8. AcceptCatch = f1 \o RuntimeCatch
  BY DEF AcceptCatch
<1> HIDE DEF f1, f2, f3
<1>0. RuntimeCatch \in Seq(StepName)
  BY RuntimeCatchIs
<1>9. /\ Tail(AcceptCatch) = f2 \o RuntimeCatch /\ Head(AcceptCatch) = "end session"
      /\ AcceptCatch # <<>> /\ AcceptCatch \in Seq(StepName)
  BY <1>0, <1>2, <1>3, <1>4, <1>8, SeqBoth, HeadOfBoth, TailOfBoth
<1>10. /\ Tail(Tail(AcceptCatch)) = f3 \o RuntimeCatch
       /\ Head(Tail(AcceptCatch)) = "stop publisher if started" /\ Tail(AcceptCatch) # <<>>
  <2>1. Tail(f2 \o RuntimeCatch) = Tail(f2) \o RuntimeCatch
    BY <1>0, <1>2, <1>3, TailOfBoth
  <2>2. Head(f2 \o RuntimeCatch) = Head(f2) /\ f2 \o RuntimeCatch # <<>>
    BY <1>0, <1>2, <1>3, HeadOfBoth
  <2> QED BY <1>3, <1>4, <1>9, <2>1, <2>2
<1>15. Tail(AcceptCatch) \in Seq(StepName) /\ Tail(Tail(AcceptCatch)) \in Seq(StepName)
  BY <1>0, <1>2, <1>9, <1>10, SeqBoth
<1>11. /\ StepsIn(f1 \o RuntimeCatch) = StepsIn(f1) \cup StepsIn(RuntimeCatch)
       /\ StepsIn(f2 \o RuntimeCatch) = StepsIn(f2) \cup StepsIn(RuntimeCatch)
       /\ StepsIn(f3 \o RuntimeCatch) = StepsIn(f3) \cup StepsIn(RuntimeCatch)
  BY <1>0, <1>2, InBoth
<1>12. StepsIn(AcceptCatch) =
         {"end session", "stop publisher if started", "stop game if started", "stop publisher",
          "give up"}
  BY <1>5, <1>8, <1>11, RuntimeCatchIs
<1>13. StepsIn(Tail(AcceptCatch)) =
         {"end session", "stop publisher if started", "stop game if started", "stop publisher",
          "give up"}
  BY <1>6, <1>9, <1>11, RuntimeCatchIs
<1>14. StepsIn(Tail(Tail(AcceptCatch))) =
         {"end session", "stop game if started", "stop publisher", "give up"}
  BY <1>7, <1>10, <1>11, RuntimeCatchIs
<1> QED BY <1>9, <1>10, <1>12, <1>13, <1>14, <1>15

LEMMA PipelineCatchIs ==
  /\ PipelineCatch \in Seq(StepName) /\ PipelineCatch # <<>>
  /\ StepsIn(PipelineCatch) =
       {"stop capture", "stop encoder", "pipeline failed"} \cup StepsIn(AcceptCatch)
  /\ StepsIn(Tail(PipelineCatch)) =
       {"stop encoder", "pipeline failed"} \cup StepsIn(AcceptCatch)
<1> DEFINE front == <<"stop capture", "stop encoder", "pipeline failed">>
<1>1. "stop capture" \in StepName /\ "stop encoder" \in StepName
      /\ "pipeline failed" \in StepName
  BY DEF StepName, CatchSteps, CloseSteps, SinkSteps
<1>2. front \in Seq(StepName) /\ front # <<>>
  BY <1>1, SeqThree
<1>3. StepsIn(front) = {"stop capture", "stop encoder", "pipeline failed"}
  BY InThree
<1>4. Tail(front) = <<"stop encoder", "pipeline failed">>
  BY TailThree
<1>9. Tail(front) \in Seq(StepName)
  BY <1>1, <1>4, SeqTwo
<1>5. StepsIn(Tail(front)) = {"stop encoder", "pipeline failed"}
  BY <1>4, InTwo
<1>6. PipelineCatch = front \o AcceptCatch
  BY DEF PipelineCatch
<1> HIDE DEF front
<1>0. AcceptCatch \in Seq(StepName)
  BY AcceptCatchIs
<1>7. /\ PipelineCatch \in Seq(StepName) /\ PipelineCatch # <<>>
      /\ Tail(PipelineCatch) = Tail(front) \o AcceptCatch
  BY <1>0, <1>2, <1>6, SeqBoth, HeadOfBoth, TailOfBoth
<1>8. /\ StepsIn(front \o AcceptCatch) = StepsIn(front) \cup StepsIn(AcceptCatch)
      /\ StepsIn(Tail(front) \o AcceptCatch) = StepsIn(Tail(front)) \cup StepsIn(AcceptCatch)
  <2>1. StepsIn(front \o AcceptCatch) = StepsIn(front) \cup StepsIn(AcceptCatch)
    BY <1>0, <1>2, InBoth, ZenonT(60)
  <2>2. StepsIn(Tail(front) \o AcceptCatch) = StepsIn(Tail(front)) \cup StepsIn(AcceptCatch)
    BY <1>0, <1>9, InBoth, ZenonT(60)
  <2> QED BY <2>1, <2>2
<1> QED BY <1>3, <1>5, <1>6, <1>7, <1>8

-----------------------------------------------------------------------------
(***************************************************************************)
(* The rests of the way forward.                                           *)
(***************************************************************************)
LEMMA RestsBegin ==
  /\ Forward \subseteq Seq(StepName) \ {<<>>}
  /\ Head(Answering) = "answer" /\ Tail(Answering) = <<>>
  /\ Head(Negotiating) = "negotiate" /\ Tail(Negotiating) = Answering
  /\ Head(Publishing) = "publish" /\ Tail(Publishing) = Negotiating
  /\ Head(Capturing) = "start capture" /\ Tail(Capturing) = Publishing
  /\ Head(Encoding) = "start encoder" /\ Tail(Encoding) = Capturing
  /\ Head(Preparing) = "start publisher" /\ Tail(Preparing) = Encoding
  /\ Head(Launching) = "start game" /\ Tail(Launching) = Preparing
  /\ Head(AwaitingPeer) = "await peer" /\ Tail(AwaitingPeer) = Answering
<1> DEFINE a == "start publisher" b == "start encoder" c == "start capture"
           d == "publish" e == "negotiate" f == "answer"
<1>1. /\ Preparing = <<a, b, c, d, e, f>> /\ Encoding = <<b, c, d, e, f>>
      /\ Capturing = <<c, d, e, f>> /\ Publishing = <<d, e, f>>
      /\ Negotiating = <<e, f>> /\ Answering = <<f>>
  BY DEF Preparing, Encoding, Capturing, Publishing, Negotiating, Answering
<1>2. /\ "start game" \in StepName /\ a \in StepName /\ b \in StepName /\ c \in StepName
      /\ d \in StepName /\ e \in StepName /\ "await peer" \in StepName /\ f \in StepName
  BY DEF StepName, ForwardSteps
<1> HIDE DEF a, b, c, d, e, f
<1>3. /\ Tail(<<a, b, c, d, e, f>>) = <<b, c, d, e, f>>
      /\ Tail(<<b, c, d, e, f>>) = <<c, d, e, f>> /\ Tail(<<c, d, e, f>>) = <<d, e, f>>
      /\ Tail(<<d, e, f>>) = <<e, f>> /\ Tail(<<e, f>>) = <<f>> /\ Tail(<<f>>) = <<>>
  BY TailTwo, TailThree, TailFour, TailFive, TailSix
<1>4. Head(<<a, b, c, d, e, f>>) = a /\ Head(<<b, c, d, e, f>>) = b /\ Head(<<c, d, e, f>>) = c
      /\ Head(<<d, e, f>>) = d /\ Head(<<e, f>>) = e /\ Head(<<f>>) = f
  OBVIOUS
<1>5. <<a, b, c, d, e, f>> # <<>> /\ <<b, c, d, e, f>> # <<>> /\ <<c, d, e, f>> # <<>>
      /\ <<d, e, f>> # <<>> /\ <<e, f>> # <<>> /\ <<f>> # <<>>
  OBVIOUS
<1>6. <<a, b, c, d, e, f>> \in Seq(StepName) /\ <<b, c, d, e, f>> \in Seq(StepName)
  BY <1>2, SeqFive, SeqSix
<1>7. <<c, d, e, f>> \in Seq(StepName) /\ <<d, e, f>> \in Seq(StepName)
      /\ <<e, f>> \in Seq(StepName) /\ <<f>> \in Seq(StepName)
  BY <1>2, SeqOne, SeqTwo, SeqThree, SeqFour
<1>8. Preparing \in Seq(StepName) /\ Answering \in Seq(StepName)
  BY <1>1, <1>6, <1>7
<1>10. <<"start game">> \in Seq(StepName) /\ <<"await peer">> \in Seq(StepName)
  BY <1>2, SeqOne
<1>11. /\ <<"start game">> # <<>> /\ Head(<<"start game">>) = "start game"
       /\ Tail(<<"start game">>) = <<>>
       /\ <<"await peer">> # <<>> /\ Head(<<"await peer">>) = "await peer"
       /\ Tail(<<"await peer">>) = <<>>
  OBVIOUS
<1>12. Launching \in Seq(StepName) /\ AwaitingPeer \in Seq(StepName)
  BY <1>8, <1>10, SeqBoth DEF Launching, AwaitingPeer
<1>13. /\ Launching # <<>> /\ Head(Launching) = "start game"
       /\ AwaitingPeer # <<>> /\ Head(AwaitingPeer) = "await peer"
  BY <1>8, <1>10, <1>11, HeadOfBoth DEF Launching, AwaitingPeer
<1>14. /\ Tail(Launching) = <<>> \o Preparing /\ Tail(AwaitingPeer) = <<>> \o Answering
  BY <1>8, <1>10, <1>11, TailOfBoth DEF Launching, AwaitingPeer
<1>15. Tail(Launching) = Preparing /\ Tail(AwaitingPeer) = Answering
  BY <1>8, <1>14, NoneBefore
<1>16. Forward \subseteq Seq(StepName) \ {<<>>}
  BY <1>1, <1>5, <1>6, <1>7, <1>12, <1>13 DEF Forward
<1> QED BY <1>1, <1>3, <1>4, <1>13, <1>15, <1>16 DEF a, b, c, d, e, f

LEMMA RestsAre ==
  /\ StepsIn(Answering) = {"answer"}
  /\ StepsIn(AwaitingPeer) = {"await peer", "answer"}
  /\ StepsIn(Negotiating) = {"negotiate", "answer"}
  /\ StepsIn(Publishing) = {"publish", "negotiate", "answer"}
  /\ StepsIn(Capturing) = {"start capture", "publish", "negotiate", "answer"}
  /\ StepsIn(Encoding) = {"start encoder", "start capture", "publish", "negotiate", "answer"}
  /\ StepsIn(Preparing) =
       {"start publisher", "start encoder", "start capture", "publish", "negotiate", "answer"}
  /\ StepsIn(Launching) =
       {"start game", "start publisher", "start encoder", "start capture", "publish",
        "negotiate", "answer"}
<1>1. \A s \in Forward : StepsIn(s) = {Head(s)} \cup StepsIn(Tail(s))
  BY RestsBegin, InTail
<1>2. StepsIn(Answering) = {"answer"}
  BY <1>1, RestsBegin, InNone DEF Forward
<1>3. StepsIn(Negotiating) = {"negotiate"} \cup StepsIn(Answering)
  BY <1>1, RestsBegin DEF Forward, Answering
<1>4. StepsIn(Publishing) = {"publish"} \cup StepsIn(Negotiating)
  BY <1>1, RestsBegin DEF Forward, Negotiating
<1>5. StepsIn(Capturing) = {"start capture"} \cup StepsIn(Publishing)
  BY <1>1, RestsBegin DEF Forward, Publishing
<1>6. StepsIn(Encoding) = {"start encoder"} \cup StepsIn(Capturing)
  BY <1>1, RestsBegin DEF Forward, Capturing
<1>7. StepsIn(Preparing) = {"start publisher"} \cup StepsIn(Encoding)
  BY <1>1, RestsBegin DEF Forward, Encoding
<1>8. StepsIn(Launching) = {"start game"} \cup StepsIn(Preparing)
  BY <1>1, RestsBegin DEF Forward
<1>9. StepsIn(AwaitingPeer) = {"await peer"} \cup StepsIn(Answering)
  BY <1>1, RestsBegin DEF Forward
<1> QED BY <1>2, <1>3, <1>4, <1>5, <1>6, <1>7, <1>8, <1>9

LEMMA AcceptOfferIs == AcceptOffer = IF HasGame THEN Launching ELSE Preparing
<1>1. Preparing \in Seq(StepName)
  BY RestsBegin DEF Forward
<1>2. AcceptOffer = (IF HasGame THEN <<"start game">> ELSE <<>>) \o Preparing
  BY DEF AcceptOffer, Preparing
<1> QED BY <1>1, <1>2, NoneBefore DEF Launching

-----------------------------------------------------------------------------
(***************************************************************************)
(* What a step does to what is owed.                                       *)
(***************************************************************************)
LEMMA ThenOwed ==
  ASSUME NativeTypes, NEW t \in Caller, todo[t] # <<>>, NEW u \in Seq(StepName), Then(t, u)
  PROVE  /\ todo' \in [Caller -> Seq(StepName)]
         /\ todo'[t] = u \o Tail(todo[t])
         /\ \A s \in Caller : s # t => todo'[s] = todo[s]
         /\ Owed(t) = {Head(todo[t])} \cup StepsIn(Tail(todo[t]))
         /\ Owed(t)' = StepsIn(u) \cup StepsIn(Tail(todo[t]))
         /\ u = <<>> => todo'[t] = Tail(todo[t])
         /\ todo'[t] # <<>> =>
              \/ u = <<>> /\ StepsIn(Tail(todo'[t])) \subseteq StepsIn(Tail(todo[t]))
              \/ u # <<>> /\ StepsIn(Tail(todo'[t])) = StepsIn(Tail(u)) \cup StepsIn(Tail(todo[t]))
<1> DEFINE rest == Tail(todo[t])
<1>1. todo[t] \in Seq(StepName) /\ rest \in Seq(StepName)
  BY HeadTailProperties DEF NativeTypes
<1>2. u \o rest \in Seq(StepName)
  BY <1>1, SeqBoth
<1>3. /\ todo' \in [Caller -> Seq(StepName)] /\ todo'[t] = u \o rest
      /\ \A s \in Caller : s # t => todo'[s] = todo[s]
  BY <1>2 DEF Then, NativeTypes
<1>4. Owed(t) = {Head(todo[t])} \cup StepsIn(rest)
  BY <1>1, InTail DEF Owed
<1>5. Owed(t)' = StepsIn(u) \cup StepsIn(rest)
  <2>1. StepsIn(u \o rest) = StepsIn(u) \cup StepsIn(rest)
    BY <1>1, InBoth, ZenonT(60)
  <2> QED BY <1>3, <2>1 DEF Owed
<1> HIDE DEF rest
<1>6. u = <<>> => todo'[t] = rest
  BY <1>1, <1>3, NoneBefore
<1>7. ASSUME todo'[t] # <<>>
      PROVE  \/ u = <<>> /\ StepsIn(Tail(todo'[t])) \subseteq StepsIn(rest)
             \/ u # <<>> /\ StepsIn(Tail(todo'[t])) = StepsIn(Tail(u)) \cup StepsIn(rest)
  <2>1. CASE u = <<>>
    <3>1. todo'[t] = rest /\ rest # <<>>
      BY <1>6, <1>7, <2>1
    <3>2. StepsIn(rest) = {Head(rest)} \cup StepsIn(Tail(rest))
      BY <1>1, <3>1, InTail
    <3> QED BY <2>1, <3>1, <3>2
  <2>2. CASE u # <<>>
    <3>1. Tail(todo'[t]) = Tail(u) \o rest
      BY <1>1, <1>3, <2>2, TailOfBoth
    <3>2. Tail(u) \in Seq(StepName)
      BY <2>2, HeadTailProperties
    <3>3. StepsIn(Tail(u) \o rest) = StepsIn(Tail(u)) \cup StepsIn(rest)
      BY <1>1, <3>2, InBoth, ZenonT(60)
    <3> QED BY <2>2, <3>1, <3>3
  <2> QED BY <2>1, <2>2
<1> QED BY <1>3, <1>4, <1>5, <1>6, <1>7 DEF rest

LEMMA InsteadOwed ==
  ASSUME NativeTypes, NEW t \in Caller, NEW u \in Seq(StepName), Instead(t, u)
  PROVE  /\ todo' \in [Caller -> Seq(StepName)]
         /\ todo'[t] = u /\ Owed(t)' = StepsIn(u)
         /\ \A s \in Caller : s # t => todo'[s] = todo[s]
BY DEF Instead, NativeTypes, Owed

\* The offer goes forward exactly when its rest is one of those.
LEMMA GoesIs ==
  ASSUME NativeTypes, ThreadsInv
  PROVE  /\ Goes <=> todo["offer"] \in Forward
         /\ Goes => Owed("offer") \subseteq ForwardSteps
         /\ ~Goes => Owed("offer") \subseteq CatchSteps
<1>1. todo["offer"] \in Forward =>
        "answer" \in Owed("offer") /\ Owed("offer") \subseteq ForwardSteps
  BY RestsAre DEF Forward, Owed, ForwardSteps
<1>2. "answer" \notin CatchSteps
  BY DEF CatchSteps, CloseSteps, SinkSteps
<1> QED BY <1>1, <1>2 DEF ThreadsInv, Goes

\* Which rest a step forward belongs to.
LEMMA AtForward ==
  ASSUME NativeTypes, ThreadsInv
  PROVE  /\ At("offer", "start game") => todo["offer"] = Launching
         /\ At("offer", "start publisher") => todo["offer"] = Preparing
         /\ At("offer", "start encoder") => todo["offer"] = Encoding
         /\ At("offer", "start capture") => todo["offer"] = Capturing
         /\ At("offer", "publish") => todo["offer"] = Publishing
         /\ At("offer", "negotiate") => todo["offer"] = Negotiating
         /\ At("offer", "await peer") => todo["offer"] = AwaitingPeer
         /\ At("offer", "answer") => todo["offer"] = Answering
<1>1. ASSUME NEW h \in ForwardSteps, At("offer", h)
      PROVE  todo["offer"] \in Forward
  <2>1. todo["offer"] \in Seq(StepName) /\ todo["offer"] # <<>>
    BY <1>1, NativeAssumption DEF At, NativeTypes
  <2>2. h \in Owed("offer")
    BY <1>1, <2>1, InTail DEF At, Owed
  <2>3. h \notin CatchSteps
    BY DEF ForwardSteps, CatchSteps, CloseSteps, SinkSteps
  <2> QED BY <2>2, <2>3 DEF ThreadsInv
<1>2. ASSUME NEW h \in ForwardSteps, At("offer", h)
      PROVE  \E s \in Forward : todo["offer"] = s /\ Head(s) = h
  BY <1>1, <1>2 DEF At
<1>3. ASSUME NEW s \in Forward
      PROVE  \/ s = Launching /\ Head(s) = "start game"
             \/ s = Preparing /\ Head(s) = "start publisher"
             \/ s = Encoding /\ Head(s) = "start encoder"
             \/ s = Capturing /\ Head(s) = "start capture"
             \/ s = Publishing /\ Head(s) = "publish"
             \/ s = Negotiating /\ Head(s) = "negotiate"
             \/ s = AwaitingPeer /\ Head(s) = "await peer"
             \/ s = Answering /\ Head(s) = "answer"
  BY RestsBegin, ZenonT(60) DEF Forward
<1>4. At("offer", "start game") => todo["offer"] = Launching
  <2> SUFFICES ASSUME At("offer", "start game") PROVE todo["offer"] = Launching
    OBVIOUS
  <2>1. PICK s \in Forward : todo["offer"] = s /\ Head(s) = "start game"
    BY <1>2 DEF ForwardSteps
  <2> QED BY <2>1, <1>3
<1>5. At("offer", "start publisher") => todo["offer"] = Preparing
  <2> SUFFICES ASSUME At("offer", "start publisher") PROVE todo["offer"] = Preparing
    OBVIOUS
  <2>1. PICK s \in Forward : todo["offer"] = s /\ Head(s) = "start publisher"
    BY <1>2 DEF ForwardSteps
  <2> QED BY <2>1, <1>3
<1>6. At("offer", "start encoder") => todo["offer"] = Encoding
  <2> SUFFICES ASSUME At("offer", "start encoder") PROVE todo["offer"] = Encoding
    OBVIOUS
  <2>1. PICK s \in Forward : todo["offer"] = s /\ Head(s) = "start encoder"
    BY <1>2 DEF ForwardSteps
  <2> QED BY <2>1, <1>3
<1>7. At("offer", "start capture") => todo["offer"] = Capturing
  <2> SUFFICES ASSUME At("offer", "start capture") PROVE todo["offer"] = Capturing
    OBVIOUS
  <2>1. PICK s \in Forward : todo["offer"] = s /\ Head(s) = "start capture"
    BY <1>2 DEF ForwardSteps
  <2> QED BY <2>1, <1>3
<1>8. At("offer", "publish") => todo["offer"] = Publishing
  <2> SUFFICES ASSUME At("offer", "publish") PROVE todo["offer"] = Publishing
    OBVIOUS
  <2>1. PICK s \in Forward : todo["offer"] = s /\ Head(s) = "publish"
    BY <1>2 DEF ForwardSteps
  <2> QED BY <2>1, <1>3
<1>9. At("offer", "negotiate") => todo["offer"] = Negotiating
  <2> SUFFICES ASSUME At("offer", "negotiate") PROVE todo["offer"] = Negotiating
    OBVIOUS
  <2>1. PICK s \in Forward : todo["offer"] = s /\ Head(s) = "negotiate"
    BY <1>2 DEF ForwardSteps
  <2> QED BY <2>1, <1>3
<1>10. At("offer", "await peer") => todo["offer"] = AwaitingPeer
  <2> SUFFICES ASSUME At("offer", "await peer") PROVE todo["offer"] = AwaitingPeer
    OBVIOUS
  <2>1. PICK s \in Forward : todo["offer"] = s /\ Head(s) = "await peer"
    BY <1>2 DEF ForwardSteps
  <2> QED BY <2>1, <1>3
<1>11. At("offer", "answer") => todo["offer"] = Answering
  <2> SUFFICES ASSUME At("offer", "answer") PROVE todo["offer"] = Answering
    OBVIOUS
  <2>1. PICK s \in Forward : todo["offer"] = s /\ Head(s) = "answer"
    BY <1>2 DEF ForwardSteps
  <2> QED BY <2>1, <1>3
<1> QED BY <1>4, <1>5, <1>6, <1>7, <1>8, <1>9, <1>10, <1>11

-----------------------------------------------------------------------------
(***************************************************************************)
(* What a step does to the processes.                                      *)
(***************************************************************************)
\* Only start() makes a process one that has to be stopped.
LEMMA StopShrinks ==
  ASSUME ProcessInv, NEW q \in Proc, NEW c \in Caller, Stop(q, c) \/ StopStepOf(q, c)
  PROVE  /\ os' = os
         /\ \A p \in Proc : Unsafe(p)' => Unsafe(p)
         /\ \A p \in Proc : state[p] = "starting" => state'[p] = "starting"
         /\ \A p \in Proc, d \in Caller :
              p # q \/ d # c => stopping'[p][d] = stopping[p][d]
         /\ stopping'[q][c] = "returned" => ~Unsafe(q)'
<1> USE DEF ProcessInv, ProcessTypeOK, Unsafe
<1>1. ASSUME Terminate(q, c), os' = os, state[q] # "starting"
      PROVE  /\ \A p \in Proc : Unsafe(p)' => Unsafe(p)
             /\ \A p \in Proc : state[p] = "starting" => state'[p] = "starting"
             /\ \A p \in Proc, d \in Caller :
                  p # q \/ d # c => stopping'[p][d] = stopping[p][d]
             /\ stopping'[q][c] = "returned" => ~Unsafe(q)'
  <2>1. CASE os[q] = "none" \/ state[q] \in Ended
    <3>1. os[q] \notin {"spawning", "alive"}
      BY <2>1 DEF ChildInv, Ended
    <3> QED BY <1>1, <2>1, <3>1 DEF Terminate
  <2>2. CASE ~(os[q] = "none" \/ state[q] \in Ended)
    <3>1. /\ state' = [state EXCEPT ![q] = "stopping"]
          /\ signal' = [signal EXCEPT ![q] = Strongest(@, "SIGTERM")]
          /\ stopping' = [stopping EXCEPT ![q][c] = "awaitExit"]
      BY <1>1, <2>2 DEF Terminate
    <3>2. \A p \in Proc : signal[p] = "SIGKILL" => signal'[p] = "SIGKILL"
      BY <3>1 DEF Strongest
    <3> QED BY <1>1, <3>1, <3>2
  <2> QED BY <2>1, <2>2
<1>2. CASE Stop(q, c) /\ state[q] = "starting"
  BY <1>2 DEF Stop
<1>3. CASE (Stop(q, c) /\ state[q] # "starting") \/ StopResumed(q, c)
  BY <1>1, <1>3 DEF Stop, StopResumed
<1>4. CASE StopTimeout(q, c)
  <2>1. /\ os' = os /\ state' = state
        /\ signal' = [signal EXCEPT ![q] = IF state[q] \in Ended THEN @ ELSE "SIGKILL"]
        /\ stopping' = [stopping EXCEPT ![q][c] = "returned"]
    BY <1>4 DEF StopTimeout
  <2>2. \A p \in Proc : signal[p] = "SIGKILL" => signal'[p] = "SIGKILL"
    BY <2>1
  <2>3. ~Unsafe(q)'
    BY <2>1 DEF ChildInv, Ended
  <2> QED BY <2>1, <2>2, <2>3
<1> QED BY <1>2, <1>3, <1>4 DEF StopStepOf

LEMMA ChildShrinks ==
  ASSUME ProcessInv, NEW q \in Proc, Spawned(q) \/ SpawnError(q) \/ Exit(q) \/ Finish(q)
  PROVE  /\ \A p \in Proc : Unsafe(p)' => Unsafe(p)
         /\ \A p \in Proc : p # q => state'[p] = state[p] /\ os'[p] = os[p]
         /\ os[q] # "none"
BY DEF Spawned, SpawnError, Exit, Finish, ProcessInv, ProcessTypeOK, Unsafe

LEMMA StartGrows ==
  ASSUME ProcessInv, NEW q \in Proc, Start(q)
  PROVE  /\ \A p \in Proc : p # q =>
              os'[p] = os[p] /\ state'[p] = state[p] /\ (Unsafe(p)' <=> Unsafe(p))
         /\ state[q] = "idle" /\ stopping' = stopping
BY DEF Start, ProcessInv, ProcessTypeOK, Unsafe

-----------------------------------------------------------------------------
(***************************************************************************)
(* A step back of a thread: it is due, and it takes the offer nowhere.     *)
(***************************************************************************)
LEMMA OwesKept ==
  ASSUME NEW t \in Caller, NEW h, NEW S, h \notin S,
         \A s \in Caller : s # t => todo'[s] = todo[s],
         Owed(t) \subseteq {h} \cup Owed(t)',
         Owes(S)
  PROVE  Owes(S)'
BY DEF Owes, Owed

\* What every step back has in common.
Back(t, h, u) ==
  /\ h \in CatchSteps \ {"give up"} /\ At(t, h)
  /\ u \in Seq(StepName) /\ StepsIn(u) \subseteq CloseSteps \ {"end session"} /\ Then(t, u)

LEMMA TypesHold ==
  ASSUME NativeTypes, todo' \in [Caller -> Seq(StepName)],
         runtime' = runtime, offered' = offered, started' = started, answer' = answer,
         ended' \in BOOLEAN, gameStarted' \in BOOLEAN,
         publisher' \in {publisher, "stopped"}, pipeline' \in {pipeline, "stopped", "failed"}
  PROVE  NativeTypes'
<1>1. publisher' \in {"unconfigured", "ready", "active", "failed", "stopped"}
  BY SMT DEF NativeTypes
<1>2. pipeline' \in {"idle", "starting", "running", "stopping", "stopped", "failed"}
  BY SMT DEF NativeTypes
<1>3. /\ runtime' \in {"listening", "connected", "revived", "error", "closed"}
      /\ offered' \in BOOLEAN /\ started' \in BOOLEAN
      /\ answer' \in {"none", "accepted", "rejected"}
  BY SMT DEF NativeTypes
<1> QED BY <1>1, <1>2, <1>3 DEF NativeTypes

LEMMA BackMove ==
  ASSUME NativeTypes, ThreadsInv, NEW t \in Caller, NEW h, NEW u, Back(t, h, u)
  PROVE  /\ todo' \in [Caller -> Seq(StepName)]
         /\ \A s \in Caller : s # t => todo'[s] = todo[s] /\ Owed(s)' = Owed(s)
         /\ h \in Owed(t) /\ StepsIn(u) \subseteq Owed(t)'
         /\ Owed(t) \subseteq {h} \cup Owed(t)' /\ Owed(t)' \subseteq Owed(t) \cup StepsIn(u)
         /\ Goes => t # "offer"
         /\ Goes' <=> Goes
         /\ Goes => todo'["offer"] = todo["offer"]
         /\ ~Goes => todo'["offer"] \notin Forward /\ Owed("offer")' \subseteq CatchSteps
         /\ "publish" \in Owed("offer")' <=> "publish" \in Owed("offer")
         /\ "start publisher" \in Owed("offer")' <=> "start publisher" \in Owed("offer")
         /\ "start game" \in Owed("offer")' <=> "start game" \in Owed("offer")
         /\ "give up" \in Owed("offer")' => "give up" \in Owed("offer")
<1>1. todo[t] # <<>> /\ Head(todo[t]) = h /\ h \in CatchSteps /\ "offer" \in Caller
  BY NativeAssumption DEF Back, At
<1>2. /\ todo' \in [Caller -> Seq(StepName)]
      /\ \A s \in Caller : s # t => todo'[s] = todo[s]
      /\ Owed(t) = {h} \cup StepsIn(Tail(todo[t]))
      /\ Owed(t)' = StepsIn(u) \cup StepsIn(Tail(todo[t]))
  BY <1>1, ThenOwed DEF Back
<1>3. \A s \in Caller : s # t => Owed(s)' = Owed(s)
  BY <1>2 DEF Owed
<1>4. StepsIn(u) \subseteq CatchSteps /\ "give up" \notin StepsIn(u)
  BY DEF Back, CatchSteps, CloseSteps, SinkSteps
<1>5. ForwardSteps \cap CatchSteps = {} /\ "answer" \in ForwardSteps
  BY DEF ForwardSteps, CatchSteps, CloseSteps, SinkSteps
<1>6. Goes => t # "offer"
  BY <1>1, <1>2, <1>5, GoesIs
<1>7. Goes => todo'["offer"] = todo["offer"] /\ Owed("offer")' = Owed("offer")
  BY <1>1, <1>2, <1>3, <1>6
<1>8. ~Goes => Owed("offer") \subseteq CatchSteps /\ Owed("offer")' \subseteq CatchSteps
  BY <1>1, <1>2, <1>3, <1>4, GoesIs
<1>9. ~Goes => ~Goes' /\ todo'["offer"] \notin Forward
  <2>1. \A s \in Forward : "answer" \in StepsIn(s)
    BY RestsAre DEF Forward
  <2> QED BY <1>5, <1>8, <2>1 DEF Goes, Owed
<1>10. Goes' <=> Goes
  BY <1>7, <1>9 DEF Goes
<1>11. \A f \in ForwardSteps : f \in Owed("offer")' <=> f \in Owed("offer")
  BY <1>5, <1>7, <1>8
<1>12. "give up" \in Owed("offer")' => "give up" \in Owed("offer")
  BY <1>1, <1>2, <1>3, <1>4
<1> QED
  BY <1>2, <1>3, <1>6, <1>7, <1>8, <1>9, <1>10, <1>11, <1>12 DEF ForwardSteps

\* Which steps a thread can owe after a step back.
LEMMA BackThreads ==
  ASSUME NativeTypes, ThreadsInv, NEW t \in Caller, NEW h, NEW u, Back(t, h, u),
         h \in SinkSteps => StepsIn(u) \subseteq SinkSteps,
         u # <<>> => StepsIn(Tail(u)) \cap AwaitSteps = {},
         IF h = "end session" THEN ended' = TRUE ELSE ended' = ended
  PROVE  ThreadsInv'
<1>1. /\ todo[t] # <<>> /\ Head(todo[t]) = h /\ u \in Seq(StepName) /\ Then(t, u)
      /\ h # "give up" /\ h \in Owed(t)
  BY BackMove DEF Back, At
<1>2. /\ todo'[t] = u \o Tail(todo[t])
      /\ \A s \in Caller : s # t => todo'[s] = todo[s] /\ Owed(s)' = Owed(s)
      /\ Owed(t) = {h} \cup StepsIn(Tail(todo[t]))
      /\ Owed(t)' = StepsIn(u) \cup StepsIn(Tail(todo[t]))
      /\ todo'[t] # <<>> =>
           \/ u = <<>> /\ StepsIn(Tail(todo'[t])) \subseteq StepsIn(Tail(todo[t]))
           \/ u # <<>> /\ StepsIn(Tail(todo'[t])) = StepsIn(Tail(u)) \cup StepsIn(Tail(todo[t]))
  BY <1>1, ThenOwed, BackMove
<1>3. todo'["offer"] \in Forward \/ Owed("offer")' \subseteq CatchSteps
  BY BackMove, GoesIs
<1>4. Owed("close")' \subseteq CloseSteps
  BY <1>2, NativeAssumption DEF ThreadsInv, Back
<1>5. Owed("sink")' \subseteq SinkSteps
  BY <1>1, <1>2, NativeAssumption DEF ThreadsInv
<1>6. \A s \in Caller : todo'[s] # <<>> => StepsIn(Tail(todo'[s])) \cap AwaitSteps = {}
  BY <1>1, <1>2 DEF ThreadsInv
<1>7. ASSUME todo'["close"] # <<>>
      PROVE  /\ "end session" \notin StepsIn(Tail(todo'["close"]))
             /\ ended' \/ At("close", "end session")'
  <2>1. CASE t # "close"
    <3>1. todo'["close"] = todo["close"]
      BY <1>2, <2>1, NativeAssumption
    <3> QED BY <1>7, <3>1 DEF ThreadsInv, At, NativeTypes
  <2>2. CASE t = "close"
    <3>1. ended' = TRUE
      BY <1>1, <2>2 DEF ThreadsInv, At, NativeTypes
    <3>2. "end session" \notin StepsIn(Tail(todo["close"])) \cup StepsIn(u)
      BY <1>1, <2>2 DEF ThreadsInv, Back
    <3>3. u # <<>> => StepsIn(u) = {Head(u)} \cup StepsIn(Tail(u))
      BY <1>1, InTail
    <3> QED BY <1>2, <1>7, <2>2, <3>1, <3>2, <3>3
  <2> QED BY <2>1, <2>2
<1> QED BY <1>3, <1>4, <1>5, <1>6, <1>7 DEF ThreadsInv

LEMMA BackDue ==
  ASSUME NativeTypes, NEW t \in Caller, NEW h \in CatchSteps, At(t, h),
         \A p \in Proc : h = Awaits[p] => stopping[p][t] = "returned"
  PROVE  ~Waiting(t)
<1>1. \A p \in Proc : StepOf[p] \notin CatchSteps
  BY StepNames
<1>2. "await peer" \notin CatchSteps
  BY DEF CatchSteps, CloseSteps, SinkSteps
<1> QED BY <1>1, <1>2 DEF Waiting, At

LEMMA BackNow ==
  ASSUME NativeTypes, NEW t \in Caller, NEW h, NEW u, Back(t, h, u), h \notin AwaitSteps
  PROVE  ~Waiting(t)
BY StepNames, BackDue DEF Back

LEMMA BackTurn ==
  ASSUME NativeTypes, ThreadsInv, TurnInv, NEW t \in Caller, NEW h, NEW u, Back(t, h, u),
         ~Waiting(t), \A p \in Proc : state[p] = "starting" => state'[p] = "starting"
  PROVE  TurnInv'
<1> SUFFICES ASSUME Goes' PROVE Waiting("offer")'
  BY DEF TurnInv
<1>1. Goes /\ t # "offer" /\ todo'["offer"] = todo["offer"]
  BY BackMove
<1>2. Waiting("offer")
  BY <1>1, NativeAssumption DEF TurnInv
<1>3. \A p \in Proc : ~At("offer", Awaits[p])
  <2>1. todo["offer"] # <<>> => Head(todo["offer"]) \in ForwardSteps
    BY <1>1, GoesIs, RestsBegin, ZenonT(60) DEF Forward, ForwardSteps
  <2>2. \A p \in Proc : Awaits[p] \notin ForwardSteps
    BY StepNames
  <2> QED BY <2>1, <2>2 DEF At
<1> QED BY <1>1, <1>2, <1>3 DEF Waiting, At

LEMMA BackFresh ==
  ASSUME NativeTypes, ThreadsInv, FreshInv, NEW t \in Caller, NEW h, NEW u, Back(t, h, u),
         runtime' = runtime, offered' = offered
  PROVE  FreshInv'
<1>1. h \in Owed(t) /\ h # "give up"
  BY BackMove DEF Back
<1> QED BY <1>1, NativeAssumption DEF FreshInv

LEMMA BackReturned ==
  ASSUME NativeTypes, ThreadsInv, ReturnedInv, NEW t \in Caller, NEW h, NEW u, Back(t, h, u),
         StepsIn(u) \cap AwaitSteps = {},
         processVars' = processVars
  PROVE  ReturnedInv'
<1>1. \A s \in Caller : s # t => todo'[s] = todo[s]
  BY BackMove
<1>2. todo'[t] # <<>> => Head(todo'[t]) \notin AwaitSteps
  <2>1. Owed(t)' = StepsIn(u) \cup StepsIn(Tail(todo[t])) /\ todo[t] # <<>>
        /\ todo' \in [Caller -> Seq(StepName)]
    BY ThenOwed DEF Back, At
  <2>2. StepsIn(Tail(todo[t])) \cap AwaitSteps = {}
    BY <2>1 DEF ThreadsInv
  <2>3. todo'[t] # <<>> => Head(todo'[t]) \in Owed(t)'
    BY <2>1, InTail DEF Owed
  <2> QED BY <2>1, <2>2, <2>3
<1>3. \A p \in Proc : Awaits[p] \in AwaitSteps
  BY StepNames
<1> QED BY <1>1, <1>2, <1>3 DEF ReturnedInv, At, Unsafe, processVars

LEMMA BackOffer ==
  ASSUME NativeTypes, ThreadsInv, OfferInv, NEW t \in Caller, NEW h, NEW u, Back(t, h, u),
         runtime' = runtime, offered' = offered, started' = started, os' = os,
         ended' = ended \/ h = "end session",
         publisher' = publisher \/ (h = "publisher stopped" /\ publisher' = "stopped"),
         pipeline' = pipeline \/ h \in {"stop pipeline", "pipeline stopped", "pipeline failed"},
         gameStarted' = gameStarted \/ (h = "game stopped" /\ ~gameStarted'),
         StepsIn(u) \cap {"stop pipeline", "pipeline stopped", "publisher stopped"} # {} =>
           ~PublisherIdle \/ h = "stop pipeline",
         StepsIn(u) \cap {"stop game", "await game", "game stopped"} # {} =>
           gameStarted \/ h = "stop game"
  PROVE  OfferInv'
<1>1. /\ \A s \in Caller : s # t => Owed(s)' = Owed(s)
      /\ h \in Owed(t) /\ Owed(t)' \subseteq Owed(t) \cup StepsIn(u)
      /\ Goes => t # "offer"
      /\ Goes' <=> Goes
      /\ "publish" \in Owed("offer")' <=> "publish" \in Owed("offer")
      /\ "start publisher" \in Owed("offer")' <=> "start publisher" \in Owed("offer")
      /\ "start game" \in Owed("offer")' <=> "start game" \in Owed("offer")
  BY BackMove
<1>2. BridgeClosed' <=> BridgeClosed
  BY DEF BridgeClosed
<1>3. /\ "publish" \in Owed("offer") => Goes
      /\ "start publisher" \in Owed("offer") => Goes
      /\ "start game" \in Owed("offer") => Goes
  BY GoesIs DEF CatchSteps, CloseSteps, SinkSteps
<1>4. Goes => t \in {"close", "sink"}
  BY <1>1, NativeAssumption
<1>5. /\ "end session" \notin SinkSteps /\ "game stopped" \notin SinkSteps
      /\ "pipeline failed" \notin CloseSteps \cup SinkSteps
  BY DEF CloseSteps, SinkSteps
<1>6. Goes /\ h \in {"end session", "game stopped"} => BridgeClosed
  BY <1>1, <1>4, <1>5 DEF ThreadsInv, OfferInv
<1>7. Owed("close")' # {} => BridgeClosed'
  BY <1>1, <1>2, NativeAssumption DEF OfferInv
<1>8. Goes' => offered' /\ runtime' \in {"listening", "closed"}
  BY <1>1 DEF OfferInv
<1>9. Goes' /\ ended' => BridgeClosed'
  BY <1>1, <1>2, <1>6 DEF OfferInv
<1>10. "publish" \in Owed("offer")' => ~started' /\ publisher' # "active" /\ Owed("sink")' = {}
  BY <1>1, NativeAssumption DEF OfferInv
<1>11. Goes' /\ "publish" \notin Owed("offer")' => started'
  BY <1>1 DEF OfferInv
<1>12. Goes' /\ HasGame /\ "start game" \notin Owed("offer")' /\ ~BridgeClosed' => gameStarted'
  BY <1>1, <1>2, <1>6 DEF OfferInv
<1>13. ASSUME "start publisher" \in Owed("offer")'
       PROVE  /\ publisher' = "unconfigured" /\ pipeline' = "idle"
              /\ os'["encoder"] = "none" /\ os'["capture"] = "none"
              /\ \A s \in Caller :
                   Owed(s)' \cap {"stop pipeline", "pipeline stopped", "publisher stopped"} = {}
  <2>1. "start publisher" \in Owed("offer") /\ Goes /\ PublisherIdle
    BY <1>1, <1>3, <1>13 DEF OfferInv, PublisherIdle
  <2>2. h \notin {"stop pipeline", "pipeline stopped", "publisher stopped", "pipeline failed"}
    BY <1>1, <1>4, <1>5, <2>1 DEF OfferInv, ThreadsInv
  <2>3. StepsIn(u) \cap {"stop pipeline", "pipeline stopped", "publisher stopped"} = {}
    BY <2>1, <2>2
  <2> QED BY <1>1, <2>1, <2>2, <2>3 DEF OfferInv
<1>14. ASSUME "start game" \in Owed("offer")'
       PROVE  /\ ~gameStarted'
              /\ \A s \in Caller : Owed(s)' \cap {"stop game", "await game", "game stopped"} = {}
  <2>1. "start game" \in Owed("offer") /\ ~gameStarted /\ h \notin {"stop game", "game stopped"}
    BY <1>1, <1>14 DEF OfferInv
  <2>2. StepsIn(u) \cap {"stop game", "await game", "game stopped"} = {}
    BY <2>1
  <2>3. \A s \in Caller : Owed(s) \cap {"stop game", "await game", "game stopped"} = {}
    BY <2>1 DEF OfferInv
  <2>4. \A s \in Caller : Owed(s)' \cap {"stop game", "await game", "game stopped"} = {}
    BY <1>1, <2>2, <2>3
  <2>5. ~gameStarted'
    BY <2>1
  <2> QED BY <2>4, <2>5
<1> QED
  BY <1>7, <1>8, <1>9, <1>10, <1>11, <1>12, <1>13, <1>14 DEF OfferInv

LEMMA BackPublisher ==
  ASSUME NativeTypes, ThreadsInv, PublisherInv, NEW t \in Caller, NEW h, NEW u, Back(t, h, u),
         runtime' = runtime, offered' = offered,
         publisher' = publisher \/ publisher' = "stopped",
         h = "publisher stopped" => publisher' = "stopped",
         h = "stop publisher" => PublisherIdle \/ "publisher stopped" \in StepsIn(u)
  PROVE  PublisherInv'
<1> SUFFICES ASSUME ~PublisherIdle'
             PROVE  Goes' \/ Alive' \/ Owes({"stop publisher", "publisher stopped"})'
  BY DEF PublisherInv
<1>1. ~PublisherIdle /\ h # "publisher stopped"
  BY DEF PublisherIdle
<1>2. CASE Goes
  BY <1>2, BackMove
<1>3. CASE Alive
  BY <1>3, BackMove DEF Alive
<1>4. CASE h = "stop publisher"
  BY <1>1, <1>4, BackMove DEF Owes
<1>5. CASE h # "stop publisher" /\ Owes({"stop publisher", "publisher stopped"})
  BY <1>1, <1>5, BackMove, OwesKept
<1> QED BY <1>1, <1>2, <1>3, <1>4, <1>5 DEF PublisherInv

LEMMA BackGame ==
  ASSUME NativeTypes, ThreadsInv, GameInv, NEW t \in Caller, NEW h, NEW u, Back(t, h, u),
         runtime' = runtime, offered' = offered,
         Unsafe("game")' => Unsafe("game"),
         gameStarted' = IF h = "game stopped" THEN FALSE ELSE gameStarted,
         h = "stop game if started" /\ gameStarted =>
           {"stop game", "game stopped"} \subseteq StepsIn(u),
         h = "stop game" => "await game" \in StepsIn(u),
         h = "await game" => ~Unsafe("game"),
         "game stopped" \in StepsIn(u) => "stop game" \in StepsIn(u)
  PROVE  GameInv'
<1>1. ASSUME gameStarted'
      PROVE  Goes' \/ Alive' \/ Owes({"stop game if started", "game stopped"})'
  <2>1. gameStarted /\ h # "game stopped"
    BY <1>1
  <2>2. CASE Goes
    BY <2>2, BackMove
  <2>3. CASE Alive
    BY <2>3, BackMove DEF Alive
  <2>4. CASE h = "stop game if started"
    BY <2>1, <2>4, BackMove DEF Owes
  <2>5. CASE h # "stop game if started" /\ Owes({"stop game if started", "game stopped"})
    BY <2>1, <2>5, BackMove, OwesKept
  <2> QED BY <2>1, <2>2, <2>3, <2>4, <2>5 DEF GameInv
<1>2. ASSUME Unsafe("game"), Owes({"stop game", "await game"}), h # "await game"
      PROVE  Owes({"stop game", "await game"})'
  <2>1. CASE h = "stop game"
    BY <2>1, BackMove DEF Owes
  <2>2. CASE h # "stop game"
    BY <1>2, <2>2, BackMove, OwesKept
  <2> QED BY <2>1, <2>2
<1>3. ASSUME Unsafe("game")'
      PROVE  \/ gameStarted' \/ "start game" \in Owed("offer")'
             \/ Owes({"stop game", "await game"})'
  <2>1. Unsafe("game") /\ h # "await game"
    BY <1>3
  <2>2. CASE h = "game stopped"
    <3>1. Owes({"game stopped"})
      BY <2>2, BackMove DEF Owes
    <3> QED BY <1>2, <2>1, <3>1 DEF GameInv
  <2>3. CASE h # "game stopped"
    BY <1>2, <2>1, <2>3, BackMove DEF GameInv
  <2> QED BY <2>2, <2>3
<1>4. ASSUME Owes({"game stopped"})', Unsafe("game")'
      PROVE  Owes({"stop game", "await game"})'
  <2>1. Unsafe("game") /\ h # "await game"
    BY <1>4
  <2>2. CASE "stop game" \in StepsIn(u)
    BY <2>2, BackMove DEF Owes
  <2>3. CASE "stop game" \notin StepsIn(u)
    <3>1. PICK s \in Caller : "game stopped" \in Owed(s)'
      BY <1>4 DEF Owes
    <3>2. "game stopped" \in Owed(s)
      BY <2>3, <3>1, BackMove
    <3>3. Owes({"game stopped"})
      BY <3>2 DEF Owes
    <3> QED BY <1>2, <2>1, <3>3 DEF GameInv
  <2> QED BY <2>2, <2>3
<1> QED BY <1>1, <1>3, <1>4 DEF GameInv

\* While a belated offer is about to stop the pipeline, every step back is its own.
LEMMA BelatedBack ==
  ASSUME NativeTypes, ThreadsInv, Belated, NEW t \in Caller, NEW h, NEW u, Back(t, h, u),
         ~Waiting(t)
  PROVE  /\ t = "offer"
         /\ h \in {"end session", "stop publisher if started", "stop pipeline"}
         /\ h = "end session" => todo["offer"] = AcceptCatch
         /\ h = "stop publisher if started" => todo["offer"] = Tail(AcceptCatch)
<1>1. t = "offer"
  BY NativeAssumption DEF Belated
<1>2. h \in CatchSteps /\ Head(todo["offer"]) = h
  BY <1>1 DEF Back, At
<1>3. todo["offer"] # Negotiating
  BY <1>2, RestsBegin DEF CatchSteps, CloseSteps, SinkSteps
<1>4. Head(AcceptCatch) = "end session" /\ Head(Tail(AcceptCatch)) = "stop publisher if started"
  BY AcceptCatchIs
<1>5. Head(<<"stop pipeline", "publisher stopped">> \o Tail(Tail(AcceptCatch))) = "stop pipeline"
  <2>1. "stop pipeline" \in StepName /\ "publisher stopped" \in StepName
    BY DEF StepName, CatchSteps, CloseSteps, SinkSteps
  <2>2. <<"stop pipeline", "publisher stopped">> \in Seq(StepName)
    BY <2>1, SeqTwo
  <2>3. /\ <<"stop pipeline", "publisher stopped">> # <<>>
        /\ Head(<<"stop pipeline", "publisher stopped">>) = "stop pipeline"
    OBVIOUS
  <2>4. Tail(Tail(AcceptCatch)) \in Seq(StepName)
    BY AcceptCatchIs
  <2> QED BY <2>2, <2>3, <2>4, HeadOfBoth
<1>6. \/ todo["offer"] = AcceptCatch \/ todo["offer"] = Tail(AcceptCatch)
      \/ todo["offer"] = <<"stop pipeline", "publisher stopped">> \o Tail(Tail(AcceptCatch))
  BY <1>3 DEF Belated
<1> QED BY <1>1, <1>2, <1>4, <1>5, <1>6

\* The pipeline is not touched, and nothing that it waits for is done.
LEMMA BackPipeline ==
  ASSUME NativeTypes, ThreadsInv, OfferInv, PipelineInv,
         NEW t \in Caller, NEW h, NEW u, Back(t, h, u), ~Waiting(t),
         h \notin {"pipeline stopped", "pipeline failed"}, pipeline' = pipeline,
         publisher' = publisher \/ h = "publisher stopped",
         ended \/ h = "end session" => ended',
         \A p \in Proc : Unsafe(p)' => Unsafe(p),
         \A p \in {"encoder", "capture"} :
           h \in StopOf(p) => ~Unsafe(p) \/ StepsIn(u) \cap StopOf(p) # {},
         "pipeline stopped" \notin StepsIn(u),
         "publisher stopped" \in StepsIn(u) => "stop pipeline" \in StepsIn(u),
         h = "stop pipeline" => ~Busy,
         Belated => Belated'
  PROVE  PipelineInv'
<1> DEFINE enders == {"stop pipeline", "pipeline stopped"}
<1>1. /\ \A s \in Caller : s # t => todo'[s] = todo[s] /\ Owed(s)' = Owed(s)
      /\ h \in Owed(t) /\ StepsIn(u) \subseteq Owed(t)'
      /\ Owed(t) \subseteq {h} \cup Owed(t)' /\ Owed(t)' \subseteq Owed(t) \cup StepsIn(u)
      /\ "publish" \in Owed("offer")' <=> "publish" \in Owed("offer")
      /\ Goes => t # "offer"
  BY BackMove
<1>2. (Busy' <=> Busy) /\ (~PublisherIdle => ~PublisherIdle' \/ h = "publisher stopped")
  BY DEF Busy, PublisherIdle
<1>3. Proc = {"game", "encoder", "capture"} /\ Caller = {"offer", "close", "sink"}
  BY NativeAssumption
<1>4. ASSUME NEW p \in {"encoder", "capture"}, Unsafe(p)', Owes(StopOf(p))
      PROVE  Owes(StopOf(p))'
  <2>1. CASE h \in StopOf(p)
    <3>1. StepsIn(u) \cap StopOf(p) # {}
      BY <1>3, <1>4, <2>1
    <3> QED BY <1>1, <3>1 DEF Owes, StopOf
  <2>2. CASE h \notin StopOf(p)
    <3>1. PICK s \in Caller : Owed(s) \cap StopOf(p) # {}
      BY <1>4 DEF Owes
    <3>2. Owed(s)' \cap StopOf(p) # {}
      BY <1>1, <2>2, <3>1
    <3> QED BY <3>2 DEF Owes, StopOf
  <2> QED BY <2>1, <2>2
<1>5. ASSUME Busy', Owes(enders)
      PROVE  Owes(enders)'
  <2>1. h \notin enders
    BY <1>2, <1>5
  <2> QED BY <1>1, <1>5, <2>1, OwesKept
<1>6. Owes({"pipeline stopped"})' => Owes({"pipeline stopped"})
  BY <1>1 DEF Owes
<1>7. Owes({"publisher stopped"})' =>
        Owes({"publisher stopped"}) \/ "stop pipeline" \in StepsIn(u)
  BY <1>1 DEF Owes
<1>8. "stop pipeline" \in StepsIn(u) => Owes(enders)'
  BY <1>1 DEF Owes
<1>9. ASSUME NEW p \in {"encoder", "capture"}, Unsafe(p)'
      PROVE  /\ Busy' \/ "publish" \in Owed("offer")' \/ Owes(StopOf(p))'
             /\ Owes({"pipeline stopped"})' =>
                  "publish" \in Owed("offer")' \/ Belated' \/ Owes(StopOf(p))'
             /\ "pipeline failed" \in Owed("offer")' => Owes(StopOf(p))'
  <2>1. Unsafe(p)
    BY <1>3, <1>9
  <2>2. "pipeline failed" \in Owed("offer")' => "pipeline failed" \in Owed("offer")
    <3>1. "pipeline failed" \notin StepsIn(u)
      BY <1>1 DEF Back, CloseSteps, SinkSteps
    <3>2. CASE t = "offer"
      BY <1>1, <3>1, <3>2
    <3>3. CASE t # "offer"
      BY <1>1, <1>3, <3>3
    <3> QED BY <3>2, <3>3
  <2>3. /\ Busy \/ "publish" \in Owed("offer") \/ Owes(StopOf(p))
        /\ Owes({"pipeline stopped"}) =>
             "publish" \in Owed("offer") \/ Belated \/ Owes(StopOf(p))
        /\ "pipeline failed" \in Owed("offer") => Owes(StopOf(p))
    BY <2>1 DEF PipelineInv
  <2> QED BY <1>1, <1>2, <1>4, <1>6, <1>9, <2>1, <2>2, <2>3
<1>10. Busy' => ~PublisherIdle' \/ Owes(enders)'
  <2>1. CASE h = "publisher stopped"
    <3>1. Owes({"publisher stopped"})
      BY <1>1, <2>1 DEF Owes
    <3>2. ~Belated
      BY <2>1, BelatedBack
    <3> QED BY <1>1, <1>2, <1>5, <3>1, <3>2 DEF PipelineInv
  <2>2. CASE h # "publisher stopped"
    BY <1>1, <1>2, <1>5, <2>2 DEF PipelineInv
  <2> QED BY <2>1, <2>2
<1>11. Owes({"publisher stopped"})' /\ Busy' => Belated' \/ Owes(enders)'
  BY <1>1, <1>2, <1>5, <1>7, <1>8 DEF PipelineInv
<1>12. ASSUME "publish" \in Owed("offer")',
              Owes({"pipeline stopped"})' \/ Owes({"publisher stopped"})'
       PROVE  ended'
  <2>1. CASE Owes({"pipeline stopped"}) \/ Owes({"publisher stopped"})
    BY <1>1, <1>12, <2>1 DEF PipelineInv
  <2>2. CASE "stop pipeline" \in StepsIn(u)
    <3>1. "publish" \in Owed("offer") /\ Owed("sink") = {}
      BY <1>1, <1>12 DEF OfferInv
    <3>2. Goes
      BY <3>1, GoesIs DEF CatchSteps, CloseSteps, SinkSteps
    <3>3. t = "close"
      BY <1>1, <1>3, <3>1, <3>2
    <3>4. h # "end session" => ended
      BY <3>3 DEF Back, At, ThreadsInv
    <3> QED BY <2>2, <3>4
  <2> QED BY <1>6, <1>7, <1>12, <2>1, <2>2
<1> HIDE DEF enders
<1>13. PipelineInv'
  BY <1>9, <1>10, <1>11, <1>12 DEF PipelineInv, enders
<1> QED BY <1>13

\* stop() of a pipeline that is not idle: both processes and the end are owed.
LEMMA BackStopping ==
  ASSUME NativeTypes, ThreadsInv, OfferInv, PipelineInv,
         NEW t \in Caller, NEW u, Back(t, "stop pipeline", u),
         {"stop capture", "stop encoder", "pipeline stopped"} \subseteq StepsIn(u),
         ended' = ended
  PROVE  PipelineInv'
<1>1. /\ StepsIn(u) \subseteq Owed(t)'
      /\ "publish" \in Owed("offer")' <=> "publish" \in Owed("offer")
      /\ Goes => t # "offer"
      /\ "stop pipeline" \in Owed(t)
  BY BackMove
<1>2. \A p \in {"encoder", "capture"} : Owes(StopOf(p))'
  <2>1. Stops["encoder"] = "stop encoder" /\ Stops["capture"] = "stop capture"
    BY StepNames
  <2> QED BY <1>1, <2>1 DEF Owes, StopOf
<1>3. Owes({"stop pipeline", "pipeline stopped"})'
  BY <1>1 DEF Owes
<1>4. ASSUME "publish" \in Owed("offer")' PROVE ended'
  <2>1. "publish" \in Owed("offer") /\ Owed("sink") = {}
    BY <1>1, <1>4 DEF OfferInv
  <2>2. Goes
    BY <2>1, GoesIs DEF CatchSteps, CloseSteps, SinkSteps
  <2>3. t = "close"
    BY <1>1, <2>1, <2>2, NativeAssumption
  <2> QED BY <2>3 DEF Back, At, ThreadsInv
<1> QED BY <1>2, <1>3, <1>4 DEF PipelineInv

\* The end of that stop(), or of the catch block of start().
LEMMA BackStopped ==
  ASSUME NativeTypes, ThreadsInv, OfferInv, PipelineInv,
         NEW t \in Caller, NEW h \in {"pipeline stopped", "pipeline failed"},
         Back(t, h, <<>>), ~Waiting(t),
         pipeline' \in {"stopped", "failed"}, ended' = ended,
         processVars' = processVars
  PROVE  PipelineInv'
<1>1. /\ \A s \in Caller : s # t => todo'[s] = todo[s] /\ Owed(s)' = Owed(s)
      /\ h \in Owed(t) /\ Owed(t) \subseteq {h} \cup Owed(t)'
      /\ Owed(t)' \subseteq Owed(t) \cup StepsIn(<<>>)
      /\ "publish" \in Owed("offer")' <=> "publish" \in Owed("offer")
  BY BackMove
<1>2. \A s \in Caller : Owed(s)' \subseteq Owed(s)
  BY <1>1, InNone
<1>3. ~Belated
  BY BelatedBack
<1>4. ~Busy'
  BY DEF Busy
<1>5. \A p \in {"encoder", "capture"} : Unsafe(p)' <=> Unsafe(p)
  BY DEF Unsafe, processVars
<1>6. \A p \in {"encoder", "capture"} : Owes(StopOf(p)) => Owes(StopOf(p))'
  <2>1. \A p \in {"encoder", "capture"} : h \notin StopOf(p)
    BY StepNames DEF StopOf
  <2> QED BY <1>1, <2>1, OwesKept DEF StopOf
<1>7. Owes({"pipeline stopped"})' => Owes({"pipeline stopped"})
  BY <1>2 DEF Owes
<1>8. Owes({"publisher stopped"})' => Owes({"publisher stopped"})
  BY <1>2 DEF Owes
<1>9. \A p \in {"encoder", "capture"} :
        Unsafe(p)' => "publish" \in Owed("offer")' \/ Owes(StopOf(p))'
  <2>1. CASE h = "pipeline stopped"
    <3>1. Owes({"pipeline stopped"})
      BY <1>1, <2>1 DEF Owes
    <3> QED BY <1>1, <1>3, <1>5, <1>6, <3>1 DEF PipelineInv
  <2>2. CASE h = "pipeline failed"
    <3>1. h \notin CloseSteps \cup SinkSteps
      BY <2>2 DEF CloseSteps, SinkSteps
    <3>2. "pipeline failed" \in Owed("offer")
      BY <1>1, <2>2, <3>1, NativeAssumption DEF ThreadsInv
    <3> QED BY <1>5, <1>6, <3>2 DEF PipelineInv
  <2> QED BY <2>1, <2>2
<1>10. \A p \in {"encoder", "capture"} :
         "pipeline failed" \in Owed("offer")' /\ Unsafe(p)' => Owes(StopOf(p))'
  BY <1>2, <1>5, <1>6, NativeAssumption DEF PipelineInv
<1> QED BY <1>1, <1>4, <1>7, <1>8, <1>9, <1>10 DEF PipelineInv
-----------------------------------------------------------------------------
(***************************************************************************)
(* The invariant is kept: the steps back.                                  *)
(***************************************************************************)
\* Everything but ProcessInv, which the process steps keep.
NativeRest ==
  /\ NativeTypes /\ ThreadsInv /\ TurnInv /\ OfferInv /\ FreshInv
  /\ ReturnedInv /\ PublisherInv /\ GameInv /\ PipelineInv

LEMMA EndSessionKeeps ==
  ASSUME NativeInv, NEW t \in Caller, EndSession(t)
  PROVE  NativeRest'
<1> USE DEF NativeInv
<1>1. <<>> \in Seq(StepName) /\ StepsIn(<<>>) = {}
  BY InNone
<1>2. Back(t, "end session", <<>>)
  BY <1>1 DEF EndSession, Back, CatchSteps, CloseSteps
<1>3. ~Waiting(t)
  BY <1>2, BackNow DEF AwaitSteps
<1>4. /\ UNCHANGED <<processVars, runtime, offered, layerVars, started, answer>> /\ ended' = TRUE
  BY DEF EndSession
<1>5. NativeTypes'
  <2>1. todo' \in [Caller -> Seq(StepName)]
    BY <1>2, BackMove
  <2>2. /\ runtime' = runtime /\ offered' = offered /\ started' = started /\ answer' = answer
        /\ publisher' = publisher /\ pipeline' = pipeline
        /\ ended' \in BOOLEAN /\ gameStarted' \in BOOLEAN
    BY <1>4 DEF layerVars, NativeTypes
  <2> QED BY <2>1, <2>2, TypesHold
<1> USE <1>4 DEF processVars, layerVars
<1>6. ThreadsInv'
  BY <1>1, <1>2, BackThreads DEF SinkSteps
<1>7. TurnInv'
  BY <1>2, <1>3, BackTurn
<1>8. OfferInv'
  BY <1>1, <1>2, BackOffer
<1>9. FreshInv'
  BY <1>2, BackFresh
<1>10. ReturnedInv'
  BY <1>1, <1>2, BackReturned
<1>11. PublisherInv'
  BY <1>2, BackPublisher
<1>12. GameInv'
  BY <1>1, <1>2, BackGame DEF Unsafe
<1>13. Belated => Belated'
  <2>1. ASSUME Belated PROVE Belated'
    <3>1. t = "offer" /\ todo["offer"] = AcceptCatch
      BY <1>2, <1>3, <2>1, BelatedBack
    <3>2. todo'["offer"] = Tail(AcceptCatch)
      BY <1>1, <3>1, AcceptCatchIs, ThenOwed DEF EndSession
    <3>3. todo'["close"] = todo["close"] /\ todo'["sink"] = todo["sink"]
      BY <1>2, <3>1, BackMove, NativeAssumption
    <3> QED BY <2>1, <3>2, <3>3 DEF Belated, Waiting, At
  <2> QED BY <2>1
<1>14. PipelineInv'
  BY <1>1, <1>2, <1>3, <1>13, StepNames, BackPipeline DEF StopOf, Unsafe
<1> QED
  BY <1>5, <1>6, <1>7, <1>8, <1>9, <1>10, <1>11, <1>12, <1>14 DEF NativeRest

\* The steps of a sequence that may have been left out.
LEMMA EitherSteps ==
  ASSUME NEW w \in Seq(StepName), w # <<>>, NEW u \in {<<>>, w}
  PROVE  /\ u \in Seq(StepName)
         /\ u = <<>> => StepsIn(u) = {}
         /\ u # <<>> => StepsIn(u) = StepsIn(w) /\ StepsIn(Tail(u)) = StepsIn(Tail(w))
<1>1. <<>> \in Seq(StepName)
  OBVIOUS
<1> QED BY <1>1, InNone

LEMMA StopPublisherKeeps ==
  ASSUME NativeInv, NEW t \in Caller, StopPublisher(t)
  PROVE  NativeRest'
<1> USE DEF NativeInv
<1>0. ASSUME NEW h \in {"stop publisher", "stop publisher if started"}, At(t, h)
      PROVE  \/ Then(t, <<>>) /\ (PublisherIdle \/ (h # "stop publisher" /\ ~started))
             \/ Then(t, <<"stop pipeline", "publisher stopped">>) /\ ~PublisherIdle
  BY <1>0 DEF StopPublisher, At
<1>1. PICK h \in {"stop publisher", "stop publisher if started"} :
        /\ At(t, h)
        /\ \/ Then(t, <<>>) /\ (PublisherIdle \/ (h # "stop publisher" /\ ~started))
           \/ Then(t, <<"stop pipeline", "publisher stopped">>) /\ ~PublisherIdle
  <2>1. At(t, "stop publisher") \/ At(t, "stop publisher if started")
    BY DEF StopPublisher
  <2> QED BY <1>0, <2>1
<1>2. PICK u \in {<<>>, <<"stop pipeline", "publisher stopped">>} :
        /\ Then(t, u)
        /\ u = <<>> => PublisherIdle \/ (h # "stop publisher" /\ ~started)
        /\ u # <<>> => ~PublisherIdle
  BY <1>1
<1>3. /\ u \in Seq(StepName)
      /\ u = <<>> => StepsIn(u) = {}
      /\ u # <<>> => /\ StepsIn(u) = {"stop pipeline", "publisher stopped"}
                     /\ StepsIn(Tail(u)) = {"publisher stopped"}
  <2>1. "stop pipeline" \in StepName /\ "publisher stopped" \in StepName
    BY DEF StepName, CatchSteps, CloseSteps, SinkSteps
  <2>2. <<"stop pipeline", "publisher stopped">> \in Seq(StepName)
    BY <2>1, SeqTwo
  <2>3. Tail(<<"stop pipeline", "publisher stopped">>) = <<"publisher stopped">>
    BY TailTwo
  <2>4. StepsIn(<<"publisher stopped">>) = {"publisher stopped"}
    BY InOne
  <2>5. StepsIn(<<"stop pipeline", "publisher stopped">>) = {"stop pipeline", "publisher stopped"}
    BY InTwo
  <2>6. <<"stop pipeline", "publisher stopped">> # <<>>
    OBVIOUS
  <2> QED BY <1>2, <2>2, <2>3, <2>4, <2>5, <2>6, EitherSteps
<1>4. Back(t, h, u)
  BY <1>1, <1>2, <1>3 DEF Back, CatchSteps, CloseSteps, SinkSteps
<1>5. ~Waiting(t)
  BY <1>4, BackNow DEF AwaitSteps
<1>6. UNCHANGED <<processVars, flowVars, layerVars>>
  BY DEF StopPublisher
<1>7. NativeTypes'
  <2>1. todo' \in [Caller -> Seq(StepName)]
    BY <1>4, BackMove
  <2>2. /\ runtime' = runtime /\ offered' = offered /\ started' = started /\ answer' = answer
        /\ publisher' = publisher /\ pipeline' = pipeline
        /\ ended' \in BOOLEAN /\ gameStarted' \in BOOLEAN
    BY <1>6 DEF flowVars, layerVars, NativeTypes
  <2> QED BY <2>1, <2>2, TypesHold
<1> USE <1>6 DEF processVars, flowVars, layerVars
<1>8. ThreadsInv'
  BY <1>3, <1>4, BackThreads DEF SinkSteps, AwaitSteps
<1>9. TurnInv'
  BY <1>4, <1>5, BackTurn
<1>10. OfferInv'
  BY <1>2, <1>3, <1>4, BackOffer
<1>11. FreshInv'
  BY <1>4, BackFresh
<1>12. ReturnedInv'
  BY <1>3, <1>4, BackReturned DEF AwaitSteps
<1>13. PublisherInv'
  BY <1>2, <1>3, <1>4, BackPublisher
<1>14. GameInv'
  BY <1>3, <1>4, BackGame DEF Unsafe
<1>15. Belated => Belated'
  <2>1. ASSUME Belated PROVE Belated'
    <3>1. h = "stop publisher if started" /\ t = "offer" /\ todo["offer"] = Tail(AcceptCatch)
      BY <1>4, <1>5, <2>1, BelatedBack
    <3>2. u = <<"stop pipeline", "publisher stopped">>
      BY <1>2, <2>1 DEF Belated, PublisherIdle
    <3>3. todo'["offer"] = <<"stop pipeline", "publisher stopped">> \o Tail(Tail(AcceptCatch))
      BY <1>2, <1>3, <3>1, <3>2, AcceptCatchIs, ThenOwed
    <3>4. todo'["close"] = todo["close"] /\ todo'["sink"] = todo["sink"]
      BY <1>4, <3>1, BackMove, NativeAssumption
    <3> QED BY <2>1, <3>3, <3>4 DEF Belated, Waiting, At
  <2> QED BY <2>1
<1>16. PipelineInv'
  BY <1>3, <1>4, <1>5, <1>15, StepNames, BackPipeline DEF StopOf, Unsafe
<1> QED
  BY <1>7, <1>8, <1>9, <1>10, <1>11, <1>12, <1>13, <1>14, <1>16 DEF NativeRest

LEMMA StopPipelineKeeps ==
  ASSUME NativeInv, NEW t \in Caller, StopPipeline(t)
  PROVE  NativeRest'
<1> USE DEF NativeInv
<1> DEFINE all == <<"stop capture", "stop encoder", "pipeline stopped">>
           h == "stop pipeline"
<1>1. PICK u \in {<<>>, all} :
        /\ At(t, h) /\ Then(t, u)
        /\ u = <<>> => PipelineIdle /\ pipeline' = pipeline
        /\ u # <<>> => pipeline' = "stopping"
  BY DEF StopPipeline
<1>2. /\ u \in Seq(StepName)
      /\ u = <<>> => StepsIn(u) = {}
      /\ u # <<>> => /\ StepsIn(u) = {"stop capture", "stop encoder", "pipeline stopped"}
                     /\ StepsIn(Tail(u)) = {"stop encoder", "pipeline stopped"}
  <2>1. "stop capture" \in StepName /\ "stop encoder" \in StepName /\ "pipeline stopped" \in StepName
    BY DEF StepName, CatchSteps, CloseSteps, SinkSteps
  <2>2. all \in Seq(StepName)
    BY <2>1, SeqThree
  <2>3. Tail(all) = <<"stop encoder", "pipeline stopped">>
    BY TailThree
  <2>4. StepsIn(<<"stop encoder", "pipeline stopped">>) = {"stop encoder", "pipeline stopped"}
    BY InTwo
  <2>5. StepsIn(all) = {"stop capture", "stop encoder", "pipeline stopped"}
    BY InThree
  <2>6. all # <<>>
    OBVIOUS
  <2> HIDE DEF all
  <2> QED BY <1>1, <2>2, <2>3, <2>4, <2>5, <2>6, EitherSteps
<1> HIDE DEF all
<1>3. Back(t, h, u)
  BY <1>1, <1>2 DEF Back, CatchSteps, CloseSteps, SinkSteps
<1>4. ~Waiting(t)
  BY <1>3, BackNow DEF AwaitSteps
<1>5. UNCHANGED <<processVars, flowVars, publisher, gameStarted>>
  BY DEF StopPipeline
<1> USE <1>5 DEF processVars, flowVars
<1>6. NativeTypes'
  <2>1. todo' \in [Caller -> Seq(StepName)]
    BY <1>3, BackMove
  <2>2. pipeline' \in {pipeline, "stopping"}
    BY <1>1
  <2> QED BY <2>1, <2>2 DEF NativeTypes
<1>7. ThreadsInv'
  BY <1>2, <1>3, BackThreads DEF SinkSteps, AwaitSteps
<1>8. TurnInv'
  BY <1>3, <1>4, BackTurn
<1>9. OfferInv'
  BY <1>1, <1>2, <1>3, BackOffer
<1>10. FreshInv'
  BY <1>3, BackFresh
<1>11. ReturnedInv'
  BY <1>2, <1>3, BackReturned DEF AwaitSteps
<1>12. PublisherInv'
  BY <1>3, BackPublisher
<1>13. GameInv'
  BY <1>2, <1>3, BackGame DEF Unsafe
<1>14. CASE u = <<>>
  <2>1. Belated => FALSE
    BY <1>1, <1>14 DEF Belated, PipelineIdle
  <2>2. ~Busy
    BY <1>1, <1>14 DEF Busy, PipelineIdle
  <2>3. PipelineInv'
    BY <1>1, <1>2, <1>3, <1>4, <1>14, <2>1, <2>2, StepNames, BackPipeline DEF StopOf, Unsafe
  <2> QED
    BY <1>6, <1>7, <1>8, <1>9, <1>10, <1>11, <1>12, <1>13, <2>3 DEF NativeRest
<1>15. CASE u # <<>>
  <2>1. PipelineInv'
    BY <1>2, <1>3, <1>15, BackStopping
  <2> QED
    BY <1>6, <1>7, <1>8, <1>9, <1>10, <1>11, <1>12, <1>13, <2>1 DEF NativeRest
<1> QED BY <1>14, <1>15

LEMMA StopGameKeeps ==
  ASSUME NativeInv, NEW t \in Caller, StopGame(t)
  PROVE  NativeRest'
<1> USE DEF NativeInv
<1> DEFINE h == "stop game if started"
<1>1. PICK u \in {<<>>, <<"stop game", "game stopped">>} :
        /\ At(t, h) /\ Then(t, u)
        /\ u = <<>> => ~gameStarted
        /\ u # <<>> => gameStarted
  BY DEF StopGame, NativeTypes
<1>2. /\ u \in Seq(StepName)
      /\ u = <<>> => StepsIn(u) = {}
      /\ u # <<>> => /\ StepsIn(u) = {"stop game", "game stopped"}
                     /\ StepsIn(Tail(u)) = {"game stopped"}
  <2>1. "stop game" \in StepName /\ "game stopped" \in StepName
    BY DEF StepName, CatchSteps, CloseSteps
  <2>2. <<"stop game", "game stopped">> \in Seq(StepName)
    BY <2>1, SeqTwo
  <2>3. Tail(<<"stop game", "game stopped">>) = <<"game stopped">>
    BY TailTwo
  <2>4. StepsIn(<<"game stopped">>) = {"game stopped"}
    BY InOne
  <2>5. StepsIn(<<"stop game", "game stopped">>) = {"stop game", "game stopped"}
    BY InTwo
  <2>6. <<"stop game", "game stopped">> # <<>>
    OBVIOUS
  <2> QED BY <1>1, <2>2, <2>3, <2>4, <2>5, <2>6, EitherSteps
<1>3. Back(t, h, u)
  BY <1>1, <1>2 DEF Back, CatchSteps, CloseSteps
<1>4. ~Waiting(t)
  BY <1>3, BackNow DEF AwaitSteps
<1>5. UNCHANGED <<processVars, flowVars, layerVars>>
  BY DEF StopGame
<1>6. NativeTypes'
  <2>1. todo' \in [Caller -> Seq(StepName)]
    BY <1>3, BackMove
  <2>2. /\ runtime' = runtime /\ offered' = offered /\ started' = started /\ answer' = answer
        /\ publisher' = publisher /\ pipeline' = pipeline
        /\ ended' \in BOOLEAN /\ gameStarted' \in BOOLEAN
    BY <1>5 DEF flowVars, layerVars, NativeTypes
  <2> QED BY <2>1, <2>2, TypesHold
<1> USE <1>5 DEF processVars, flowVars, layerVars
<1>7. ThreadsInv'
  BY <1>2, <1>3, BackThreads DEF SinkSteps, AwaitSteps
<1>8. TurnInv'
  BY <1>3, <1>4, BackTurn
<1>9. OfferInv'
  BY <1>1, <1>2, <1>3, BackOffer
<1>10. FreshInv'
  BY <1>3, BackFresh
<1>11. ReturnedInv'
  BY <1>2, <1>3, BackReturned DEF AwaitSteps
<1>12. PublisherInv'
  BY <1>3, BackPublisher
<1>13. GameInv'
  BY <1>1, <1>2, <1>3, BackGame DEF Unsafe
<1>14. Belated => h \in {"end session", "stop publisher if started", "stop pipeline"}
  BY <1>3, <1>4, BelatedBack
<1>15. PipelineInv'
  BY <1>2, <1>3, <1>4, <1>14, StepNames, BackPipeline DEF StopOf, Unsafe
<1> QED
  BY <1>6, <1>7, <1>8, <1>9, <1>10, <1>11, <1>12, <1>13, <1>15 DEF NativeRest

\* A step back that adds nothing and touches no process: what is left of each part.
LEMMA RecordKeeps ==
  ASSUME NativeInv, NEW t \in Caller, Record(t)
  PROVE  NativeRest'
<1> USE DEF NativeInv
<1>1. PICK h \in {"publisher stopped", "pipeline stopped", "pipeline failed", "game stopped"} :
        /\ At(t, h)
        /\ publisher' = IF h = "publisher stopped" THEN "stopped" ELSE publisher
        /\ pipeline' = IF h = "pipeline stopped" THEN "stopped"
                       ELSE IF h = "pipeline failed" THEN "failed" ELSE pipeline
        /\ gameStarted' = IF h = "game stopped" THEN FALSE ELSE gameStarted
  BY DEF Record
<1>2. Then(t, <<>>) /\ UNCHANGED <<processVars, flowVars>>
  BY DEF Record
<1>3. <<>> \in Seq(StepName) /\ StepsIn(<<>>) = {}
  BY InNone, EmptySeq
<1>4. Back(t, h, <<>>)
  BY <1>1, <1>2, <1>3 DEF Back, CatchSteps, CloseSteps, SinkSteps
<1>5. ~Waiting(t)
  BY <1>4, BackNow DEF AwaitSteps
<1>6. /\ state' = state /\ os' = os /\ signal' = signal /\ stopping' = stopping
      /\ runtime' = runtime /\ offered' = offered /\ ended' = ended /\ started' = started
      /\ answer' = answer /\ processVars' = processVars
  BY <1>2 DEF processVars, flowVars
<1>7. NativeTypes'
  <2>1. todo' \in [Caller -> Seq(StepName)]
    BY <1>4, BackMove
  <2>2. publisher' \in {publisher, "stopped"} /\ pipeline' \in {pipeline, "stopped", "failed"}
    BY <1>1
  <2>3. gameStarted' \in BOOLEAN /\ ended' \in BOOLEAN
    BY <1>1, <1>6 DEF NativeTypes
  <2> QED BY <1>6, <2>1, <2>2, <2>3, TypesHold
<1>8. ThreadsInv'
  BY <1>3, <1>4, <1>6, BackThreads
<1>9. TurnInv'
  BY <1>4, <1>5, <1>6, BackTurn
<1>10. OfferInv'
  BY <1>1, <1>3, <1>4, <1>6, BackOffer
<1>11. FreshInv'
  BY <1>4, <1>6, BackFresh
<1>12. ReturnedInv'
  BY <1>3, <1>4, <1>6, BackReturned
<1>13. PublisherInv'
  BY <1>1, <1>4, <1>6, BackPublisher
<1>14. GameInv'
  BY <1>1, <1>3, <1>4, <1>6, BackGame DEF Unsafe
<1>15. PipelineInv'
  <2>1. CASE h \in {"pipeline stopped", "pipeline failed"}
    BY <1>1, <1>4, <1>5, <1>6, <2>1, BackStopped
  <2>2. CASE h \in {"publisher stopped", "game stopped"}
    <3>1. ~Belated
      BY <1>4, <1>5, <2>2, BelatedBack
    <3>2. \A p \in {"encoder", "capture"} : h \notin StopOf(p)
      BY <2>2, StepNames DEF StopOf
    <3> QED BY <1>1, <1>3, <1>4, <1>5, <1>6, <2>2, <3>1, <3>2, BackPipeline DEF Unsafe
  <2> QED BY <2>1, <2>2
<1> QED
  BY <1>7, <1>8, <1>9, <1>10, <1>11, <1>12, <1>13, <1>14, <1>15 DEF NativeRest

LEMMA StoppedKeeps ==
  ASSUME NativeInv, NEW t \in Caller, NEW q \in Proc, Stopped(t, q)
  PROVE  NativeRest'
<1> USE DEF NativeInv
<1> DEFINE h == Awaits[q]
<1>1. At(t, h) /\ stopping[q][t] = "returned" /\ Then(t, <<>>)
      /\ UNCHANGED <<processVars, flowVars, layerVars>>
  BY DEF Stopped
<1>2. h \in AwaitSteps /\ h \in CatchSteps \ {"give up"} /\ ~Unsafe(q)
  BY <1>1, StepNames DEF ReturnedInv, AwaitSteps
<1>3. <<>> \in Seq(StepName) /\ StepsIn(<<>>) = {}
  BY InNone
<1>4. Back(t, h, <<>>)
  BY <1>1, <1>2, <1>3 DEF Back
<1>5. \A p \in Proc : h = Awaits[p] => p = q
  BY StepNames, NativeAssumption
<1>6. ~Waiting(t)
  BY <1>1, <1>2, <1>5, BackDue
<1>7. /\ state' = state /\ os' = os /\ signal' = signal /\ stopping' = stopping
      /\ runtime' = runtime /\ offered' = offered /\ ended' = ended /\ started' = started
      /\ answer' = answer /\ processVars' = processVars
      /\ publisher' = publisher /\ pipeline' = pipeline /\ gameStarted' = gameStarted
  BY <1>1 DEF processVars, flowVars, layerVars
<1>8. h \in {"await game", "await encoder", "await capture"}
  BY <1>2 DEF AwaitSteps
<1> HIDE DEF h
<1>9. NativeTypes'
  <2>1. todo' \in [Caller -> Seq(StepName)]
    BY <1>4, BackMove
  <2> QED BY <1>7, <2>1 DEF NativeTypes
<1>10. ThreadsInv'
  BY <1>3, <1>4, <1>7, <1>8, BackThreads
<1>11. TurnInv'
  BY <1>4, <1>6, <1>7, BackTurn
<1>12. OfferInv'
  BY <1>3, <1>4, <1>7, BackOffer
<1>13. FreshInv'
  BY <1>4, <1>7, BackFresh
<1>14. ReturnedInv'
  BY <1>3, <1>4, <1>7, BackReturned
<1>15. PublisherInv'
  BY <1>4, <1>7, <1>8, BackPublisher
<1>16. GameInv'
  <2>1. h = "await game" => ~Unsafe("game")
    BY <1>2, <1>5, StepNames, NativeAssumption DEF h
  <2> QED BY <1>3, <1>4, <1>7, <1>8, <2>1, BackGame DEF Unsafe
<1>17. PipelineInv'
  <2>1. ~Belated
    BY <1>4, <1>6, <1>8, BelatedBack
  <2>2. \A p \in {"encoder", "capture"} : h \in StopOf(p) => ~Unsafe(p)
    <3>1. \A p \in {"encoder", "capture"} : h # Stops[p]
      BY <1>8, StepNames
    <3>2. \A p \in {"encoder", "capture"} : h = Awaits[p] => p = q
      BY <1>5, NativeAssumption
    <3> QED BY <1>2, <3>1, <3>2 DEF StopOf
  <2> QED BY <1>3, <1>4, <1>6, <1>7, <1>8, <2>1, <2>2, BackPipeline DEF Unsafe
<1> QED
  BY <1>9, <1>10, <1>11, <1>12, <1>13, <1>14, <1>15, <1>16, <1>17 DEF NativeRest

LEMMA StopProcessKeeps ==
  ASSUME NativeInv, NEW t \in Caller, NEW q \in Proc, StopProcess(t, q)
  PROVE  NativeRest'
<1> USE DEF NativeInv
<1> DEFINE h == Stops[q]
           u == <<Awaits[q]>>
<1>1. At(t, h) /\ Stop(q, t) /\ Then(t, u) /\ UNCHANGED <<flowVars, layerVars>>
  BY DEF StopProcess
<1>2. h \in {"stop game", "stop encoder", "stop capture"}
      /\ (h = "stop game" <=> q = "game")
  BY StepNames, NativeAssumption
<1>3. Awaits[q] \in CloseSteps /\ Awaits[q] \in StepName
      /\ (Awaits[q] \in SinkSteps <=> q # "game") /\ (Awaits[q] = "await game" <=> q = "game")
      /\ Awaits[q] \in AwaitSteps
  BY StepNames, NativeAssumption DEF CloseSteps, SinkSteps, StepName, CatchSteps, AwaitSteps
<1>4. u \in Seq(StepName) /\ StepsIn(u) = {Awaits[q]}
  BY <1>3, SeqOne, InOne
<1>5. u # <<>> /\ Tail(u) = <<>> /\ Head(u) = Awaits[q]
  OBVIOUS
<1>6. StepsIn(Tail(u)) = {}
  BY <1>5, InNone
<1>7. \A p \in {"encoder", "capture"} :
        h \in StopOf(p) => Awaits[q] \in StopOf(p)
  BY <1>2, StepNames, NativeAssumption DEF StopOf
<1>8. /\ runtime' = runtime /\ offered' = offered /\ ended' = ended /\ started' = started
      /\ answer' = answer
      /\ publisher' = publisher /\ pipeline' = pipeline /\ gameStarted' = gameStarted
  BY <1>1 DEF flowVars, layerVars
<1>9. /\ os' = os
      /\ \A p \in Proc : Unsafe(p)' => Unsafe(p)
      /\ \A p \in Proc : state[p] = "starting" => state'[p] = "starting"
      /\ \A p \in Proc, d \in Caller :
           p # q \/ d # t => stopping'[p][d] = stopping[p][d]
      /\ stopping'[q][t] = "returned" => ~Unsafe(q)'
  BY <1>1, StopShrinks
<1> HIDE DEF h, u
<1>10. Back(t, h, u)
  BY <1>1, <1>2, <1>3, <1>4 DEF Back, CatchSteps, CloseSteps, SinkSteps, AwaitSteps
<1>11. ~Waiting(t)
  BY <1>2, <1>10, BackNow DEF AwaitSteps
<1>12. NativeTypes'
  <2>1. todo' \in [Caller -> Seq(StepName)]
    BY <1>10, BackMove
  <2> QED BY <1>8, <2>1 DEF NativeTypes
<1>13. ThreadsInv'
  <2>1. h \in SinkSteps => StepsIn(u) \subseteq SinkSteps
    BY <1>2, <1>3, <1>4 DEF SinkSteps
  <2> QED BY <1>2, <1>6, <1>8, <1>10, <2>1, BackThreads
<1>14. TurnInv'
  BY <1>9, <1>10, <1>11, BackTurn
<1>15. OfferInv'
  BY <1>2, <1>3, <1>4, <1>8, <1>9, <1>10, BackOffer DEF AwaitSteps
<1>16. FreshInv'
  BY <1>8, <1>10, BackFresh
<1>17. ReturnedInv'
  <2>1. \A s \in Caller : s # t => todo'[s] = todo[s]
    BY <1>10, BackMove
  <2>2. Head(todo'[t]) = Awaits[q]
    <3>1. todo[t] # <<>> /\ todo[t] \in Seq(StepName) /\ Tail(todo[t]) \in Seq(StepName)
      BY <1>1, HeadTailProperties DEF At, NativeTypes
    <3>2. todo'[t] = u \o Tail(todo[t])
      BY <1>1, <1>4, <3>1, ThenOwed
    <3> QED BY <1>4, <1>5, <3>1, <3>2, HeadOfBoth
  <2>3. \A p \in Proc : Awaits[p] = Awaits[q] => p = q
    BY StepNames, NativeAssumption
  <2>4. ASSUME NEW s \in Caller, NEW p \in Proc, At(s, Awaits[p])', stopping'[p][s] = "returned"
        PROVE  ~Unsafe(p)'
    <3>1. CASE s = t
      BY <1>9, <2>2, <2>3, <2>4, <3>1 DEF At
    <3>2. CASE s # t
      BY <1>9, <2>1, <2>4, <3>2 DEF At, ReturnedInv
    <3> QED BY <3>1, <3>2
  <2> QED BY <2>4 DEF ReturnedInv
<1>18. PublisherInv'
  BY <1>2, <1>8, <1>10, BackPublisher
<1>19. GameInv'
  <2>1. Unsafe("game")' => Unsafe("game")
    BY <1>9, NativeAssumption
  <2> QED BY <1>2, <1>3, <1>4, <1>8, <1>10, <2>1, BackGame DEF AwaitSteps
<1>20. PipelineInv'
  <2>1. ~Belated
    BY <1>2, <1>10, <1>11, BelatedBack
  <2> QED BY <1>2, <1>3, <1>4, <1>7, <1>8, <1>9, <1>10, <1>11, <2>1, BackPipeline DEF AwaitSteps
<1> QED
  BY <1>12, <1>13, <1>14, <1>15, <1>16, <1>17, <1>18, <1>19, <1>20 DEF NativeRest

-----------------------------------------------------------------------------
(***************************************************************************)
(* The invariant is kept: the steps forward.                               *)
(***************************************************************************)
\* The offer goes from the rest r to v, while the other threads stand still.
Onward(r, v) ==
  /\ todo["offer"] = r /\ r \in Forward /\ Waiting("close") /\ Waiting("sink")
  /\ v \in Forward \cup {<<>>, AcceptCatch, PipelineCatch, RuntimeCatch}
  /\ Instead("offer", v)
  /\ stopping' = stopping /\ offered' = offered /\ ended' = ended

LEMMA NextRest ==
  ASSUME NativeTypes, todo["offer"] \in Forward, Then("offer", <<>>)
  PROVE  Instead("offer", Tail(todo["offer"]))
<1>1. Tail(todo["offer"]) \in Seq(StepName)
  BY RestsBegin, HeadTailProperties
<1> QED BY <1>1, NoneBefore DEF Then, Instead

\* What the offer can go to.
LEMMA RestOrCatch ==
  ASSUME NEW v \in Forward \cup {<<>>, AcceptCatch, PipelineCatch, RuntimeCatch}
  PROVE  /\ v \in Seq(StepName) /\ StepsIn(v) \cap AwaitSteps = {}
         /\ v \in Forward => "answer" \in StepsIn(v) /\ StepsIn(v) \subseteq ForwardSteps
         /\ v \notin Forward => StepsIn(v) \subseteq CatchSteps /\ "answer" \notin StepsIn(v)
         /\ v \notin Forward =>
              v = <<>> \/ {"stop publisher", "stop game if started"} \subseteq StepsIn(v)
         /\ StepsIn(v) \cap {"stop pipeline", "pipeline stopped", "publisher stopped",
                             "stop game", "await game", "game stopped"} = {}
<1>1. CASE v \in Forward
  <2>1. v \in Seq(StepName)
    BY <1>1, RestsBegin
  <2>2. StepsIn(v) \subseteq ForwardSteps /\ "answer" \in StepsIn(v)
    BY <1>1, RestsAre, ZenonT(60) DEF Forward, ForwardSteps
  <2> QED BY <1>1, <2>1, <2>2 DEF ForwardSteps, AwaitSteps
<1>2. CASE v = <<>>
  <2>1. v \in Seq(StepName) /\ StepsIn(v) = {}
    BY <1>2, EmptySeq, InNone
  <2>2. v \notin Forward
    BY <1>2, RestsBegin
  <2> QED BY <1>2, <2>1, <2>2
<1>3. CASE v \notin Forward /\ v # <<>>
  <2>1. v \in Seq(StepName)
    BY <1>3, AcceptCatchIs, PipelineCatchIs, RuntimeCatchIs
  <2>2. /\ StepsIn(v) \subseteq {"end session", "stop publisher if started", "stop game if started",
                                 "stop publisher", "give up", "stop capture", "stop encoder",
                                 "pipeline failed"}
        /\ {"stop publisher", "stop game if started"} \subseteq StepsIn(v)
    BY <1>3, AcceptCatchIs, PipelineCatchIs, RuntimeCatchIs
  <2>3. {"end session", "stop publisher if started", "stop game if started", "stop publisher",
         "give up", "stop capture", "stop encoder", "pipeline failed"} \subseteq CatchSteps
    BY DEF CatchSteps, CloseSteps, SinkSteps
  <2> QED BY <1>3, <2>1, <2>2, <2>3 DEF AwaitSteps
<1> QED BY <1>1, <1>2, <1>3

LEMMA OnwardMove ==
  ASSUME NativeTypes, ThreadsInv, OfferInv, NEW r, NEW v, Onward(r, v)
  PROVE  /\ todo' \in [Caller -> Seq(StepName)] /\ todo'["offer"] = v
         /\ \A s \in Caller : s # "offer" => todo'[s] = todo[s] /\ Owed(s)' = Owed(s)
         /\ Owed("offer") = StepsIn(r) /\ Owed("offer")' = StepsIn(v)
         /\ Goes /\ offered /\ (Goes' <=> v \in Forward)
         /\ StepsIn(r) \cap {"stop pipeline", "pipeline stopped", "publisher stopped",
                             "stop game", "await game", "game stopped"} = {}
         /\ Waiting("close")' /\ Waiting("sink")'
<1>0. "offer" \in Caller /\ Caller = {"offer", "close", "sink"}
  BY NativeAssumption
<1>1. /\ v \in Seq(StepName)
      /\ v \in Forward => "answer" \in StepsIn(v)
      /\ v \notin Forward => "answer" \notin StepsIn(v)
  BY RestOrCatch DEF Onward
<1>2. /\ todo' \in [Caller -> Seq(StepName)] /\ todo'["offer"] = v /\ Owed("offer")' = StepsIn(v)
      /\ \A s \in Caller : s # "offer" => todo'[s] = todo[s]
  BY <1>0, <1>1, InsteadOwed DEF Onward
<1>3. \A s \in Caller : s # "offer" => Owed(s)' = Owed(s)
  BY <1>2 DEF Owed
<1>4. Goes /\ offered /\ (Goes' <=> v \in Forward)
  BY <1>1, <1>2, GoesIs DEF Onward, OfferInv, Goes
<1>5. StepsIn(r) \cap {"stop pipeline", "pipeline stopped", "publisher stopped",
                       "stop game", "await game", "game stopped"} = {}
  BY RestOrCatch DEF Onward
<1>6. Waiting("close")' /\ Waiting("sink")'
  BY <1>0, <1>2 DEF Onward, Waiting, At
<1> QED BY <1>2, <1>3, <1>4, <1>5, <1>6 DEF Onward, Owed

\* The parts of the invariant that such a step keeps whatever it does.
LEMMA OnwardKeeps ==
  ASSUME NativeTypes, ThreadsInv, OfferInv, NEW r, NEW v, Onward(r, v), v = <<>> => Alive'
  PROVE  /\ ThreadsInv' /\ TurnInv' /\ FreshInv' /\ ReturnedInv' /\ PublisherInv'
         /\ gameStarted' => Goes' \/ Alive' \/ Owes({"stop game if started", "game stopped"})'
<1>0. Caller = {"offer", "close", "sink"}
  BY NativeAssumption
<1>1. /\ todo' \in [Caller -> Seq(StepName)] /\ todo'["offer"] = v
      /\ \A s \in Caller : s # "offer" => todo'[s] = todo[s] /\ Owed(s)' = Owed(s)
      /\ Owed("offer")' = StepsIn(v)
      /\ Goes /\ offered /\ (Goes' <=> v \in Forward)
      /\ Waiting("close")' /\ Waiting("sink")'
  <2>1. todo' \in [Caller -> Seq(StepName)]
    BY OnwardMove
  <2>4. todo'["offer"] = v
    BY NativeAssumption DEF Onward, Instead, NativeTypes
  <2>6. Owed("offer")' = StepsIn(v)
    BY OnwardMove
  <2>5. \A s \in Caller : s # "offer" => todo'[s] = todo[s] /\ Owed(s)' = Owed(s)
    BY OnwardMove
  <2>2. Goes /\ offered /\ (Goes' <=> v \in Forward)
    BY OnwardMove
  <2>3. Waiting("close")' /\ Waiting("sink")'
    BY OnwardMove
  <2> QED BY <2>1, <2>2, <2>3, <2>4, <2>5, <2>6
<1>2. /\ v \in Seq(StepName) /\ StepsIn(v) \cap AwaitSteps = {}
      /\ v \notin Forward => StepsIn(v) \subseteq CatchSteps
      /\ v \notin Forward =>
           v = <<>> \/ {"stop publisher", "stop game if started"} \subseteq StepsIn(v)
  BY RestOrCatch DEF Onward
<1>3. v # <<>> => StepsIn(v) = {Head(v)} \cup StepsIn(Tail(v))
  BY <1>2, InTail
<1>4. ended' = ended /\ stopping' = stopping /\ offered' = offered
  BY DEF Onward
<1>5. ThreadsInv'
  <2>1. /\ todo'["offer"] \in Forward \/ Owed("offer")' \subseteq CatchSteps
        /\ Owed("close")' \subseteq CloseSteps /\ Owed("sink")' \subseteq SinkSteps
    BY <1>0, <1>1, <1>2 DEF ThreadsInv
  <2>2. \A s \in Caller : todo'[s] # <<>> => StepsIn(Tail(todo'[s])) \cap AwaitSteps = {}
    BY <1>1, <1>2, <1>3 DEF ThreadsInv
  <2>3. todo'["close"] # <<>> =>
          /\ "end session" \notin StepsIn(Tail(todo'["close"]))
          /\ ended' \/ At("close", "end session")'
    BY <1>0, <1>1, <1>4 DEF ThreadsInv, At
  <2> QED BY <2>1, <2>2, <2>3 DEF ThreadsInv
<1>6. TurnInv'
  BY <1>1 DEF TurnInv
<1>7. FreshInv'
  BY <1>1, <1>4 DEF FreshInv
<1>8. ReturnedInv'
  <2>1. \A p \in Proc : ~At("offer", Awaits[p])'
    <3>1. \A p \in Proc : Awaits[p] \in AwaitSteps
      BY StepNames
    <3> QED BY <1>1, <1>2, <1>3, <3>1 DEF At
  <2>2. ASSUME NEW s \in {"close", "sink"}, NEW p \in Proc, At(s, Awaits[p])'
        PROVE  stopping'[p][s] # "returned"
    <3>1. Waiting(s)'
      BY <1>1, <2>2
    <3>2. PICK q \in Proc : At(s, Awaits[q])' /\ stopping'[q][s] # "returned"
      BY <2>2, <3>1 DEF Waiting, At
    <3>3. Awaits[p] = Awaits[q]
      BY <2>2, <3>2 DEF At
    <3>4. p = q
      BY <3>3, StepNames, NativeAssumption
    <3> QED BY <3>2, <3>4
  <2> QED BY <1>0, <2>1, <2>2 DEF ReturnedInv
<1>9. Goes' \/ Alive' \/ {"stop publisher", "stop game if started"} \subseteq Owed("offer")'
  BY <1>1, <1>2
<1>10. PublisherInv'
  BY <1>0, <1>9 DEF PublisherInv, Owes
<1>11. gameStarted' => Goes' \/ Alive' \/ Owes({"stop game if started", "game stopped"})'
  BY <1>0, <1>9 DEF Owes
<1> QED BY <1>5, <1>6, <1>7, <1>8, <1>10, <1>11

\* A thread that waits at a stop() waits for one that has not returned.
LEMMA WaitsFor ==
  ASSUME NEW s \in {"close", "sink"}, Waiting(s), NEW p \in Proc, At(s, Awaits[p])
  PROVE  stopping[p][s] # "returned"
<1>1. PICK q \in Proc : At(s, Awaits[q]) /\ stopping[q][s] # "returned"
  BY DEF Waiting, At
<1>2. Awaits[p] = Awaits[q]
  BY <1>1 DEF At
<1>3. p = q
  BY <1>2, StepNames, NativeAssumption
<1> QED BY <1>1, <1>3

\* What the others owe is still owed, and the offer owes what it goes to.
LEMMA OnwardOwes ==
  ASSUME NativeTypes, ThreadsInv, OfferInv, NEW r, NEW v, Onward(r, v),
         NEW S \in SUBSET CatchSteps
  PROVE  /\ Owes(S) => Owes(S)'
         /\ Owes(S)' => Owes(S) \/ StepsIn(v) \cap S # {}
         /\ StepsIn(v) \cap S # {} => Owes(S)'
<1>1. /\ \A s \in Caller : s # "offer" => Owed(s)' = Owed(s)
      /\ Owed("offer") = StepsIn(r) /\ Owed("offer")' = StepsIn(v)
  BY OnwardMove
<1>2. StepsIn(r) \cap S = {}
  <2>1. StepsIn(r) \subseteq ForwardSteps
    BY RestOrCatch DEF Onward
  <2>2. ForwardSteps \cap CatchSteps = {}
    BY DEF ForwardSteps, CatchSteps, CloseSteps, SinkSteps
  <2> QED BY <2>1, <2>2
<1>3. "offer" \in Caller
  BY NativeAssumption
<1> QED BY <1>1, <1>2, <1>3 DEF Owes

LEMMA OnwardOffer ==
  ASSUME NativeTypes, ThreadsInv, OfferInv, NEW r, NEW v, Onward(r, v), runtime' = runtime,
         "publish" \in StepsIn(v) =>
           "publish" \in StepsIn(r) /\ started' = started /\ publisher' \in {publisher, "ready"},
         v \in Forward /\ "publish" \notin StepsIn(v) =>
           started' \/ ("publish" \notin StepsIn(r) /\ started' = started),
         "start publisher" \in StepsIn(v) =>
           /\ "start publisher" \in StepsIn(r)
           /\ publisher' = publisher /\ pipeline' = pipeline
           /\ os'["encoder"] = os["encoder"] /\ os'["capture"] = os["capture"],
         "start game" \notin StepsIn(v), gameStarted => gameStarted',
         "start game" \in StepsIn(r) /\ v \in Forward => gameStarted'
  PROVE  OfferInv'
<1>1. /\ \A s \in Caller : s # "offer" => Owed(s)' = Owed(s)
      /\ Owed("offer") = StepsIn(r) /\ Owed("offer")' = StepsIn(v)
      /\ Goes /\ (Goes' <=> v \in Forward)
  BY OnwardMove
<1>2. /\ ended' = ended /\ offered' = offered
      /\ Caller = {"offer", "close", "sink"}
  BY NativeAssumption DEF Onward
<1>3. BridgeClosed' <=> BridgeClosed
  BY DEF BridgeClosed
<1>4. /\ Goes' => offered' /\ runtime' \in {"listening", "closed"}
      /\ Goes' /\ ended' => BridgeClosed'
      /\ Owed("close")' # {} => BridgeClosed'
  BY <1>1, <1>2, <1>3 DEF OfferInv
<1>5. "publish" \in Owed("offer")' => ~started' /\ publisher' # "active" /\ Owed("sink")' = {}
  BY <1>1, <1>2 DEF OfferInv
<1>9. ASSUME Goes', "publish" \notin Owed("offer")' PROVE started'
  <2>1. v \in Forward /\ "publish" \notin StepsIn(v)
    BY <1>1, <1>9
  <2>2. CASE "publish" \notin StepsIn(r) /\ started' = started
    BY <1>1, <2>2 DEF OfferInv
  <2> QED BY <2>1, <2>2
<1>6. ASSUME "start publisher" \in Owed("offer")'
      PROVE  /\ publisher' = "unconfigured" /\ pipeline' = "idle"
             /\ os'["encoder"] = "none" /\ os'["capture"] = "none"
             /\ \A t \in Caller :
                  Owed(t)' \cap {"stop pipeline", "pipeline stopped", "publisher stopped"} = {}
  <2>1. StepsIn(v) \cap {"stop pipeline", "pipeline stopped", "publisher stopped"} = {}
    BY RestOrCatch DEF Onward
  <2>2. "start publisher" \in Owed("offer")
    BY <1>1, <1>6
  <2>3. \A t \in Caller :
          Owed(t)' \cap {"stop pipeline", "pipeline stopped", "publisher stopped"} = {}
    BY <1>1, <1>2, <2>1, <2>2 DEF OfferInv
  <2> QED BY <1>1, <1>6, <2>2, <2>3 DEF OfferInv
<1>7. Goes' /\ HasGame /\ "start game" \notin Owed("offer")' /\ ~BridgeClosed' => gameStarted'
  BY <1>1, <1>3 DEF OfferInv
<1>8. "start game" \notin Owed("offer")'
  BY <1>1
<1> QED BY <1>4, <1>5, <1>6, <1>7, <1>8, <1>9 DEF OfferInv

LEMMA OnwardGame ==
  ASSUME NativeTypes, ThreadsInv, OfferInv, GameInv, NEW r, NEW v, Onward(r, v),
         v = <<>> => Alive',
         Unsafe("game")' => gameStarted' \/ (Unsafe("game") /\ "start game" \notin StepsIn(r)),
         Unsafe("game")' => Unsafe("game"), gameStarted => gameStarted'
  PROVE  GameInv'
<1> DEFINE stops == {"stop game", "await game"}
<1>1. stops \in SUBSET CatchSteps /\ {"game stopped"} \in SUBSET CatchSteps
  BY DEF CatchSteps, CloseSteps
<1>2. Owes(stops) => Owes(stops)'
  BY <1>1, OnwardOwes
<1>3. Owes({"game stopped"})' => Owes({"game stopped"})
  <2>1. StepsIn(v) \cap {"game stopped"} = {}
    BY RestOrCatch DEF Onward
  <2> QED BY <1>1, <2>1, OnwardOwes
<1>4. Owed("offer") = StepsIn(r)
  BY DEF Onward, Owed
<1> HIDE DEF stops
<1>5. Unsafe("game")' =>
        gameStarted' \/ "start game" \in Owed("offer")' \/ Owes(stops)'
  BY <1>2, <1>4 DEF GameInv, stops
<1>6. Owes({"game stopped"})' /\ Unsafe("game")' => Owes(stops)'
  BY <1>2, <1>3 DEF GameInv, stops
<1>7. gameStarted' => Goes' \/ Alive' \/ Owes({"stop game if started", "game stopped"})'
  BY OnwardKeeps
<1> QED BY <1>5, <1>6, <1>7 DEF GameInv, stops

\* The pipeline before the publisher publishes, and after.
LEMMA OnwardPublishing ==
  ASSUME NativeTypes, ThreadsInv, OfferInv, PipelineInv, NEW r, NEW v, Onward(r, v),
         "publish" \in StepsIn(r), "publish" \in StepsIn(v),
         \/ publisher' = publisher /\ pipeline' = pipeline
         \/ publisher' = "ready" /\ ~Owes({"publisher stopped"})
  PROVE  PipelineInv'
<1> DEFINE enders == {"stop pipeline", "pipeline stopped"}
<1>1. Owed("offer") = StepsIn(r) /\ Owed("offer")' = StepsIn(v) /\ ended' = ended
  BY OnwardMove DEF Onward
<1>2. ~Belated
  BY <1>1 DEF Belated, OfferInv
<1>3. /\ enders \in SUBSET CatchSteps
      /\ {"pipeline stopped"} \in SUBSET CatchSteps
      /\ {"publisher stopped"} \in SUBSET CatchSteps
  BY DEF CatchSteps, CloseSteps, SinkSteps
<1>4. /\ StepsIn(v) \cap {"pipeline stopped"} = {} /\ StepsIn(v) \cap {"publisher stopped"} = {}
      /\ "pipeline failed" \notin StepsIn(v)
  <2>1. v \in Forward
    BY RestOrCatch DEF Onward, CatchSteps, CloseSteps, SinkSteps
  <2>2. StepsIn(v) \subseteq ForwardSteps
    BY <2>1, RestOrCatch DEF Onward
  <2> QED BY <2>2 DEF ForwardSteps
<1>5. /\ Owes({"pipeline stopped"})' => Owes({"pipeline stopped"})
      /\ Owes({"publisher stopped"})' => Owes({"publisher stopped"})
  BY <1>3, <1>4, OnwardOwes
<1>6. Owes(enders) => Owes(enders)'
  BY <1>3, OnwardOwes
<1> HIDE DEF enders
<1>7. Busy' => ~PublisherIdle' \/ Owes(enders)'
  BY <1>6 DEF PipelineInv, Busy, PublisherIdle, enders
<1>8. Owes({"publisher stopped"})' /\ Busy' => Owes(enders)'
  BY <1>2, <1>5, <1>6 DEF PipelineInv, Busy, enders
<1>9. Owes({"pipeline stopped"})' \/ Owes({"publisher stopped"})' => ended'
  BY <1>1, <1>5 DEF PipelineInv
<1> QED BY <1>1, <1>4, <1>7, <1>8, <1>9 DEF PipelineInv, enders

LEMMA OnwardPublished ==
  ASSUME NativeTypes, ThreadsInv, OfferInv, PipelineInv, NEW r, NEW v, Onward(r, v),
         "publish" \notin StepsIn(r), "publish" \notin StepsIn(v),
         "pipeline failed" \notin StepsIn(v),
         publisher' = publisher, pipeline' = pipeline,
         \A p \in {"encoder", "capture"} : Unsafe(p)' => Unsafe(p),
         Belated => Belated'
  PROVE  PipelineInv'
<1> DEFINE enders == {"stop pipeline", "pipeline stopped"}
<1>1. Owed("offer") = StepsIn(r) /\ Owed("offer")' = StepsIn(v)
  BY OnwardMove
<1>2. (Busy' <=> Busy) /\ (PublisherIdle' <=> PublisherIdle)
  BY DEF Busy, PublisherIdle
<1>3. /\ enders \in SUBSET CatchSteps
      /\ {"pipeline stopped"} \in SUBSET CatchSteps
      /\ {"publisher stopped"} \in SUBSET CatchSteps
      /\ \A p \in {"encoder", "capture"} : StopOf(p) \in SUBSET CatchSteps
  BY StepNames, ZenonT(60) DEF CatchSteps, CloseSteps, SinkSteps, StopOf
<1>4. StepsIn(v) \cap {"pipeline stopped"} = {} /\ StepsIn(v) \cap {"publisher stopped"} = {}
  BY RestOrCatch DEF Onward
<1>5. /\ Owes({"pipeline stopped"})' => Owes({"pipeline stopped"})
      /\ Owes({"publisher stopped"})' => Owes({"publisher stopped"})
  BY <1>3, <1>4, OnwardOwes
<1>6. Owes(enders) => Owes(enders)'
  BY <1>3, OnwardOwes
<1>7. \A p \in {"encoder", "capture"} : Owes(StopOf(p)) => Owes(StopOf(p))'
  <2>1. ASSUME NEW p \in {"encoder", "capture"}, Owes(StopOf(p))
        PROVE  Owes(StopOf(p))'
    <3>1. PICK s \in Caller : Owed(s) \cap StopOf(p) # {}
      BY <2>1 DEF Owes
    <3>2. s # "offer"
      <4>1. Owed("offer") \subseteq ForwardSteps
        BY <1>1, RestOrCatch DEF Onward
      <4>2. ForwardSteps \cap CatchSteps = {}
        BY DEF ForwardSteps, CatchSteps, CloseSteps, SinkSteps
      <4> QED BY <1>3, <3>1, <4>1, <4>2
    <3>3. Owed(s)' = Owed(s)
      BY <3>2, OnwardMove
    <3> QED BY <3>1, <3>3 DEF Owes, StopOf
  <2> QED BY <2>1
<1> HIDE DEF enders
<1>8. \A p \in {"encoder", "capture"} :
        /\ Unsafe(p)' => Busy' \/ Owes(StopOf(p))'
        /\ Owes({"pipeline stopped"})' /\ Unsafe(p)' => Belated' \/ Owes(StopOf(p))'
  BY <1>1, <1>2, <1>5, <1>7 DEF PipelineInv
<1>9. Busy' => ~PublisherIdle' \/ Owes(enders)'
  BY <1>2, <1>6 DEF PipelineInv, enders
<1>10. Owes({"publisher stopped"})' /\ Busy' => Belated' \/ Owes(enders)'
  BY <1>2, <1>5, <1>6 DEF PipelineInv, enders
<1> QED BY <1>1, <1>8, <1>9, <1>10 DEF PipelineInv, enders

\* It is the offer's turn.
LEMMA OfferTurn ==
  ASSUME NativeInv, NEW h \in ForwardSteps, At("offer", h), h # "await peer",
         \A p \in Proc : h = StepOf[p] => state[p] # "starting"
  PROVE  Goes /\ todo["offer"] \in Forward /\ Waiting("close") /\ Waiting("sink")
<1> USE DEF NativeInv
<1>1. todo["offer"] \in Seq(StepName) /\ todo["offer"] # <<>> /\ Head(todo["offer"]) = h
  BY NativeAssumption DEF At, NativeTypes
<1>2. h \in Owed("offer") /\ h \notin CatchSteps
  BY <1>1, InTail DEF Owed, ForwardSteps, CatchSteps, CloseSteps, SinkSteps
<1>3. Goes /\ todo["offer"] \in Forward
  BY <1>2, GoesIs
<1>4. \A p \in Proc : Awaits[p] # h
  BY StepNames
<1>5. ~Waiting("offer")
  BY <1>1, <1>4 DEF Waiting, At
<1> QED BY <1>3, <1>5 DEF TurnInv

LEMMA StartProcessKeeps ==
  ASSUME NativeInv, NEW q \in Proc, StartProcess(q)
  PROVE  NativeRest'
<1> USE DEF NativeInv
<1>1. At("offer", StepOf[q]) /\ Start(q) /\ UNCHANGED nativeVars
  BY DEF StartProcess
<1>2. /\ \A p \in Proc : p # q => os'[p] = os[p] /\ (Unsafe(p)' <=> Unsafe(p))
      /\ state[q] = "idle" /\ stopping' = stopping
  BY <1>1, StartGrows
<1>3. /\ runtime' = runtime /\ offered' = offered /\ ended' = ended /\ started' = started
      /\ answer' = answer /\ todo' = todo
      /\ publisher' = publisher /\ pipeline' = pipeline /\ gameStarted' = gameStarted
  BY <1>1 DEF nativeVars, flowVars, layerVars
<1>4. Goes /\ Waiting("close") /\ Waiting("sink")
  <2>1. StepOf[q] \in ForwardSteps /\ StepOf[q] # "await peer"
        /\ \A p \in Proc : StepOf[q] = StepOf[p] => p = q
    BY StepNames, NativeAssumption
  <2> QED BY <1>1, <1>2, <2>1, OfferTurn
<1>5. /\ q = "game" => todo["offer"] = Launching
      /\ q = "encoder" => todo["offer"] = Encoding
      /\ q = "capture" => todo["offer"] = Capturing
  BY <1>1, StepNames, AtForward
<1>6. /\ "publish" \in Owed("offer")
      /\ q = "game" <=> "start game" \in Owed("offer")
      /\ q # "game" => "start publisher" \notin Owed("offer")
  <2>1. Owed("offer") = StepsIn(todo["offer"])
    BY DEF Owed
  <2>2. CASE q = "game"
    BY <1>5, <2>1, <2>2, RestsAre
  <2>3. CASE q = "encoder"
    <3>1. Owed("offer") = {"start encoder", "start capture", "publish", "negotiate", "answer"}
      BY <1>5, <2>1, <2>3, RestsAre
    <3> QED BY <2>3, <3>1
  <2>4. CASE q = "capture"
    <3>1. Owed("offer") = {"start capture", "publish", "negotiate", "answer"}
      BY <1>5, <2>1, <2>4, RestsAre
    <3> QED BY <2>4, <3>1
  <2> QED BY <2>2, <2>3, <2>4, NativeAssumption
<1>7. \A t \in Caller : Owed(t)' = Owed(t)
  BY <1>3 DEF Owed
<1>8. \A S : Owes(S)' <=> Owes(S)
  BY <1>7 DEF Owes
<1>9. Owed("offer")' = Owed("offer") /\ (Goes' <=> Goes)
  BY <1>7, NativeAssumption DEF Goes
<1>10. NativeTypes' /\ ThreadsInv'
  <2>1. NativeTypes'
    BY <1>3 DEF NativeTypes
  <2>2. ThreadsInv'
    BY <1>3, <1>7, NativeAssumption DEF ThreadsInv, At
  <2> QED BY <2>1, <2>2
<1>11. TurnInv'
  BY <1>2, <1>3, <1>4 DEF TurnInv, Waiting, At
<1>12. OfferInv'
  <2>1. "start publisher" \in Owed("offer") =>
          os'["encoder"] = os["encoder"] /\ os'["capture"] = os["capture"]
    BY <1>2, <1>6, NativeAssumption
  <2>2. BridgeClosed' <=> BridgeClosed
    BY <1>3 DEF BridgeClosed
  <2> QED BY <1>3, <1>7, <1>9, <2>1, <2>2, NativeAssumption DEF OfferInv
<1>13. FreshInv'
  BY <1>3, <1>4 DEF FreshInv, OfferInv
<1>14. ReturnedInv'
  <2>1. \A p \in Proc : ~At("offer", Awaits[p])
    BY <1>1, StepNames DEF At
  <2> QED BY <1>2, <1>3, <1>4, <2>1, WaitsFor, NativeAssumption DEF ReturnedInv, At
<1>15. PublisherInv'
  BY <1>3, <1>8, <1>9 DEF PublisherInv, PublisherIdle, Alive
<1>16. GameInv'
  <2>1. gameStarted' => Goes'
    BY <1>4, <1>9
  <2>2. CASE q = "game"
    <3>1. ~Owes({"game stopped"})'
      BY <1>6, <1>8, <2>2 DEF OfferInv, Owes
    <3> QED BY <1>6, <1>9, <2>1, <2>2, <3>1 DEF GameInv
  <2>3. CASE q # "game"
    <3>1. Unsafe("game")' <=> Unsafe("game")
      BY <1>2, <2>3, NativeAssumption
    <3> QED BY <1>3, <1>8, <1>9, <2>1, <3>1 DEF GameInv
  <2> QED BY <2>2, <2>3
<1>17. PipelineInv'
  <2>1. "pipeline failed" \notin Owed("offer")
    BY <1>4, GoesIs DEF ForwardSteps
  <2>2. ~Belated
    BY <1>6 DEF Belated, OfferInv
  <2>3. (Busy' <=> Busy) /\ (PublisherIdle' <=> PublisherIdle)
    BY <1>3 DEF Busy, PublisherIdle
  <2> QED BY <1>3, <1>6, <1>8, <1>9, <2>1, <2>2, <2>3 DEF PipelineInv
<1> QED
  BY <1>10, <1>11, <1>12, <1>13, <1>14, <1>15, <1>16, <1>17 DEF NativeRest

\* A process has answered its start().
LEMMA StartedKeeps ==
  ASSUME NativeInv, NEW q \in Proc, Started(q)
  PROVE  NativeRest'
<1> USE DEF NativeInv
<1> DEFINE r == todo["offer"]
<1>1. /\ At("offer", StepOf[q]) /\ state[q] \notin {"idle", "starting"}
      /\ UNCHANGED <<processVars, flowVars, publisher, pipeline>>
  BY DEF Started
<1>2. /\ runtime' = runtime /\ offered' = offered /\ ended' = ended /\ started' = started
      /\ answer' = answer /\ publisher' = publisher /\ pipeline' = pipeline
      /\ state' = state /\ os' = os /\ signal' = signal /\ stopping' = stopping
  BY <1>1 DEF processVars, flowVars
<1>3. Goes /\ r \in Forward /\ Waiting("close") /\ Waiting("sink")
  <2>1. StepOf[q] \in ForwardSteps /\ StepOf[q] # "await peer"
        /\ \A p \in Proc : StepOf[q] = StepOf[p] => p = q
    BY StepNames, NativeAssumption
  <2> QED BY <1>1, <2>1, OfferTurn
<1>4. /\ q = "game" => r = Launching
      /\ q = "encoder" => r = Encoding
      /\ q = "capture" => r = Capturing
  BY <1>1, StepNames, AtForward
<1>5. PICK v :
        \/ /\ Spawns(q) /\ v = Tail(r) /\ Instead("offer", v)
           /\ gameStarted' = (gameStarted \/ q = "game")
        \/ /\ ~Spawns(q) /\ v = (IF q = "game" THEN AcceptCatch ELSE PipelineCatch)
           /\ Instead("offer", v) /\ gameStarted' = gameStarted
  BY <1>3, NextRest DEF Started
<1>6. \A p \in Proc : Unsafe(p)' <=> Unsafe(p)
  BY <1>2 DEF Unsafe
<1>7. gameStarted' \in BOOLEAN /\ (gameStarted => gameStarted')
  BY <1>5 DEF NativeTypes
<1> HIDE DEF r
<1>8. /\ q = "game" /\ Spawns(q) => v = Preparing
      /\ q = "encoder" /\ Spawns(q) => v = Capturing
      /\ q = "capture" /\ Spawns(q) => v = Publishing
  BY <1>4, <1>5, RestsBegin
<1>9. v \in Forward \cup {<<>>, AcceptCatch, PipelineCatch, RuntimeCatch} /\ v # <<>>
  BY <1>5, <1>8, RestsBegin, AcceptCatchIs, PipelineCatchIs, NativeAssumption, ZenonT(60) DEF Forward
<1>10. Onward(r, v)
  BY <1>2, <1>3, <1>5, <1>9 DEF Onward, r
<1>11. NativeTypes'
  <2>1. todo' \in [Caller -> Seq(StepName)]
    BY <1>10, OnwardMove
  <2> QED BY <1>2, <1>7, <2>1 DEF NativeTypes
<1>12. ThreadsInv' /\ TurnInv' /\ FreshInv' /\ ReturnedInv' /\ PublisherInv'
  BY <1>9, <1>10, OnwardKeeps
<1>13. /\ q = "game" => "start publisher" \in StepsIn(r) /\ "start game" \in StepsIn(r)
       /\ q # "game" => "start game" \notin StepsIn(r)
       /\ "publish" \in StepsIn(r)
  <2>1. CASE q = "game"
    BY <1>4, <2>1, RestsAre
  <2>2. CASE q = "encoder"
    <3>1. StepsIn(r) = {"start encoder", "start capture", "publish", "negotiate", "answer"}
      BY <1>4, <2>2, RestsAre
    <3> QED BY <2>2, <3>1
  <2>3. CASE q = "capture"
    <3>1. StepsIn(r) = {"start capture", "publish", "negotiate", "answer"}
      BY <1>4, <2>3, RestsAre
    <3> QED BY <2>3, <3>1
  <2> QED BY <2>1, <2>2, <2>3, NativeAssumption
<1>14. ASSUME Spawns(q)
       PROVE  OfferInv' /\ GameInv' /\ PipelineInv'
  <2>1. /\ "publish" \in StepsIn(v) /\ "start game" \notin StepsIn(v)
        /\ "start publisher" \in StepsIn(v) => q = "game"
    <3>1. CASE q = "game"
      <4>1. StepsIn(v) = {"start publisher", "start encoder", "start capture", "publish",
                          "negotiate", "answer"}
        BY <1>8, <1>14, <3>1, RestsAre
      <4> QED BY <3>1, <4>1
    <3>2. CASE q = "encoder"
      <4>1. StepsIn(v) = {"start capture", "publish", "negotiate", "answer"}
        BY <1>8, <1>14, <3>2, RestsAre
      <4> QED BY <4>1
    <3>3. CASE q = "capture"
      <4>1. StepsIn(v) = {"publish", "negotiate", "answer"}
        BY <1>8, <1>14, <3>3, RestsAre
      <4> QED BY <4>1
    <3> QED BY <3>1, <3>2, <3>3, NativeAssumption
  <2>2. q = "game" => gameStarted'
    BY <1>5, <1>14
  <2>3. OfferInv'
    BY <1>2, <1>7, <1>10, <1>13, <2>1, <2>2, OnwardOffer
  <2>4. GameInv'
    BY <1>6, <1>7, <1>9, <1>10, <1>13, <2>2, NativeAssumption, OnwardGame
  <2>5. PipelineInv'
    BY <1>2, <1>10, <1>13, <2>1, OnwardPublishing
  <2> QED BY <2>3, <2>4, <2>5
<1>15. ASSUME ~Spawns(q)
       PROVE  OfferInv' /\ GameInv' /\ PipelineInv'
  <2>1. ~Unsafe(q)
    BY <1>1, <1>15 DEF Spawns, Unsafe, ProcessInv, ChildInv
  <2>2. gameStarted' = gameStarted /\ v \in {AcceptCatch, PipelineCatch}
    BY <1>5, <1>15
  <2>3. v \notin Forward /\ StepsIn(v) \subseteq CatchSteps
    <3>1. "answer" \notin StepsIn(v)
      <4>1. "answer" \notin StepsIn(AcceptCatch)
        BY AcceptCatchIs
      <4>2. "answer" \notin StepsIn(PipelineCatch)
        BY <4>1, PipelineCatchIs
      <4> QED BY <2>2, <4>1, <4>2
    <3>2. v \in Forward \cup {<<>>, AcceptCatch, PipelineCatch, RuntimeCatch}
      BY <2>2
    <3> QED BY <3>1, <3>2, RestOrCatch
  <2>4. "publish" \notin StepsIn(v) /\ "start publisher" \notin StepsIn(v)
        /\ "start game" \notin StepsIn(v)
    BY <2>3 DEF CatchSteps, CloseSteps, SinkSteps
  <2>5. OfferInv'
    BY <1>2, <1>10, <2>2, <2>3, <2>4, OnwardOffer
  <2>6. GameInv'
    <3>1. Unsafe("game")' => Unsafe("game") /\ "start game" \notin StepsIn(r)
      BY <1>6, <1>13, <2>1, NativeAssumption
    <3> QED BY <1>9, <1>10, <2>2, <3>1, OnwardGame
  <2>7. Owed("offer") = StepsIn(r) /\ Owed("offer")' = StepsIn(v)
    BY <1>10, OnwardMove
  <2>8. PipelineInv'
    <3>1. CASE q = "game"
      <4>1. v = AcceptCatch
        BY <1>5, <1>15, <3>1
      <4>2. \A p \in {"encoder", "capture"} : ~Unsafe(p)'
        BY <1>2, <1>13, <2>7, <3>1 DEF OfferInv, Unsafe
      <4>3. ~Busy'
        BY <1>2, <1>13, <2>7, <3>1 DEF OfferInv, Busy
      <4> QED BY <2>4, <2>7, <4>2, <4>3 DEF PipelineInv
    <3>2. CASE q # "game"
      <4>1. v = PipelineCatch
        BY <1>5, <1>15, <3>2
      <4>2. {"stop encoder", "stop capture"} \subseteq StepsIn(v)
        BY <4>1, PipelineCatchIs
      <4>3. \A p \in {"encoder", "capture"} : Owes(StopOf(p))'
        BY <2>7, <4>2, StepNames, NativeAssumption DEF Owes, StopOf
      <4>4. ~Belated
        BY <1>13, <2>7 DEF Belated, OfferInv
      <4>5. StepsIn(v) \cap {"stop pipeline", "pipeline stopped", "publisher stopped"} = {}
        BY <1>9, RestOrCatch
      <4>6. {"stop pipeline", "pipeline stopped"} \in SUBSET CatchSteps
            /\ {"publisher stopped"} \in SUBSET CatchSteps
        BY DEF CatchSteps, CloseSteps, SinkSteps
      <4>7. Owes({"stop pipeline", "pipeline stopped"}) => Owes({"stop pipeline", "pipeline stopped"})'
        BY <1>10, <4>6, OnwardOwes
      <4>8. Owes({"publisher stopped"})' => Owes({"publisher stopped"})
        <5>1. StepsIn(v) \cap {"publisher stopped"} = {}
          BY <4>5
        <5> QED BY <1>10, <4>6, <5>1, OnwardOwes
      <4>9. (Busy' <=> Busy) /\ (PublisherIdle' <=> PublisherIdle)
        BY <1>2 DEF Busy, PublisherIdle
      <4> QED BY <2>4, <2>7, <4>3, <4>4, <4>7, <4>8, <4>9 DEF PipelineInv
    <3> QED BY <3>1, <3>2
  <2> QED BY <2>5, <2>6, <2>8
<1> QED BY <1>11, <1>12, <1>14, <1>15 DEF NativeRest

LEMMA StartPublisherKeeps ==
  ASSUME NativeInv, StartPublisher
  PROVE  NativeRest'
<1> USE DEF NativeInv
<1>1. /\ At("offer", "start publisher") /\ Then("offer", <<>>)
      /\ publisher' = "ready" /\ pipeline' = "starting"
      /\ UNCHANGED <<processVars, flowVars, gameStarted>>
  BY DEF StartPublisher
<1>2. /\ runtime' = runtime /\ offered' = offered /\ ended' = ended /\ started' = started
      /\ answer' = answer /\ gameStarted' = gameStarted
      /\ state' = state /\ os' = os /\ signal' = signal /\ stopping' = stopping
  BY <1>1 DEF processVars, flowVars
<1>3. Goes /\ todo["offer"] \in Forward /\ Waiting("close") /\ Waiting("sink")
  <2>1. \A p \in Proc : StepOf[p] # "start publisher"
    BY StepNames, NativeAssumption
  <2> QED BY <1>1, <2>1, OfferTurn DEF ForwardSteps
<1>4. todo["offer"] = Preparing
  BY <1>1, AtForward
<1>5. Instead("offer", Encoding)
  BY <1>1, <1>3, <1>4, NextRest, RestsBegin
<1>6. Encoding \in Forward /\ Encoding # <<>>
  BY RestsBegin DEF Forward
<1>7. Onward(Preparing, Encoding)
  BY <1>2, <1>3, <1>4, <1>5, <1>6 DEF Onward
<1>8. NativeTypes'
  <2>1. todo' \in [Caller -> Seq(StepName)]
    BY <1>7, OnwardMove
  <2> QED BY <1>1, <1>2, <2>1 DEF NativeTypes
<1>9. ThreadsInv' /\ TurnInv' /\ FreshInv' /\ ReturnedInv' /\ PublisherInv'
  BY <1>6, <1>7, OnwardKeeps
<1>10. StepsIn(Encoding) = {"start encoder", "start capture", "publish", "negotiate", "answer"}
  BY RestsAre
<1>11. StepsIn(Preparing) = {"start publisher", "start encoder", "start capture", "publish",
                             "negotiate", "answer"}
  BY RestsAre
<1>15. /\ "publish" \in StepsIn(Encoding) /\ "publish" \in StepsIn(Preparing)
       /\ "start publisher" \notin StepsIn(Encoding)
       /\ "start game" \notin StepsIn(Encoding) /\ "start game" \notin StepsIn(Preparing)
  BY <1>10, <1>11
<1>16. gameStarted => gameStarted'
  BY <1>2
<1>12. OfferInv'
  BY <1>1, <1>2, <1>7, <1>15, <1>16, OnwardOffer
<1>13. GameInv'
  BY <1>2, <1>6, <1>7, <1>11, OnwardGame DEF Unsafe
<1>14. PipelineInv'
  <2>1. ~Owes({"publisher stopped"})
    BY <1>4, <1>11 DEF OfferInv, Owes, Owed
  <2> QED BY <1>1, <1>7, <1>10, <1>11, <2>1, OnwardPublishing
<1> QED BY <1>8, <1>9, <1>12, <1>13, <1>14 DEF NativeRest

LEMMA PublishKeeps ==
  ASSUME NativeInv, Publish
  PROVE  NativeRest'
<1> USE DEF NativeInv
<1>1. /\ At("offer", "publish") /\ Then("offer", <<>>)
      /\ publisher' = "active" /\ pipeline' = "running" /\ started' = TRUE
      /\ UNCHANGED <<processVars, runtime, offered, ended, gameStarted, answer>>
  BY DEF Publish
<1>2. /\ runtime' = runtime /\ offered' = offered /\ ended' = ended
      /\ answer' = answer /\ gameStarted' = gameStarted
      /\ state' = state /\ os' = os /\ signal' = signal /\ stopping' = stopping
  BY <1>1 DEF processVars
<1>3. Goes /\ todo["offer"] \in Forward /\ Waiting("close") /\ Waiting("sink")
  <2>1. \A p \in Proc : StepOf[p] # "publish"
    BY StepNames, NativeAssumption
  <2> QED BY <1>1, <2>1, OfferTurn DEF ForwardSteps
<1>4. todo["offer"] = Publishing
  BY <1>1, AtForward
<1>5. Instead("offer", Negotiating)
  BY <1>1, <1>3, <1>4, NextRest, RestsBegin
<1>6. Negotiating \in Forward /\ Negotiating # <<>>
  BY RestsBegin DEF Forward
<1>7. Onward(Publishing, Negotiating)
  BY <1>2, <1>3, <1>4, <1>5, <1>6 DEF Onward
<1>8. NativeTypes'
  <2>1. todo' \in [Caller -> Seq(StepName)]
    BY <1>7, OnwardMove
  <2> QED BY <1>1, <1>2, <2>1 DEF NativeTypes
<1>9. ThreadsInv' /\ TurnInv' /\ FreshInv' /\ ReturnedInv' /\ PublisherInv'
  BY <1>6, <1>7, OnwardKeeps
<1>10. StepsIn(Publishing) = {"publish", "negotiate", "answer"}
       /\ StepsIn(Negotiating) = {"negotiate", "answer"}
  BY RestsAre
<1>15. /\ "publish" \notin StepsIn(Negotiating) /\ "start publisher" \notin StepsIn(Negotiating)
       /\ "start game" \notin StepsIn(Negotiating) /\ "start game" \notin StepsIn(Publishing)
  BY <1>10
<1>16. started' /\ (gameStarted => gameStarted')
  BY <1>1, <1>2
<1>12. OfferInv'
  BY <1>1, <1>2, <1>7, <1>15, <1>16, OnwardOffer
<1>13. GameInv'
  BY <1>2, <1>6, <1>7, <1>10, OnwardGame DEF Unsafe
<1>14. PipelineInv'
  <2>1. Owed("offer") = {"publish", "negotiate", "answer"}
        /\ Owed("offer")' = {"negotiate", "answer"}
    BY <1>7, <1>10, OnwardMove
  <2>2. Busy' /\ ~PublisherIdle'
    BY <1>1 DEF Busy, PublisherIdle
  <2>3. ended => Belated'
    <3>1. todo'["offer"] = Negotiating
      BY <1>5, NativeAssumption DEF Instead, NativeTypes
    <3>2. Waiting("close")' /\ Waiting("sink")'
      BY <1>7, OnwardMove
    <3> QED BY <1>1, <1>2, <3>1, <3>2 DEF Belated
  <2>4. Owes({"pipeline stopped"})' \/ Owes({"publisher stopped"})' => ended
    <3>1. {"pipeline stopped"} \in SUBSET CatchSteps /\ {"publisher stopped"} \in SUBSET CatchSteps
      BY DEF CatchSteps, CloseSteps, SinkSteps
    <3>2. StepsIn(Negotiating) \cap {"pipeline stopped"} = {}
          /\ StepsIn(Negotiating) \cap {"publisher stopped"} = {}
      BY <1>10
    <3>3. Owes({"pipeline stopped"})' => Owes({"pipeline stopped"})
      BY <1>7, <3>1, <3>2, OnwardOwes
    <3>4. Owes({"publisher stopped"})' => Owes({"publisher stopped"})
      BY <1>7, <3>1, <3>2, OnwardOwes
    <3> QED BY <2>1, <3>3, <3>4 DEF PipelineInv
  <2> QED BY <2>1, <2>2, <2>3, <2>4 DEF PipelineInv
<1> QED BY <1>8, <1>9, <1>12, <1>13, <1>14 DEF NativeRest

\* The offer goes from one rest to another after it has published, or it fails: nothing
\* but todo changes.
LEMMA SettlingKeeps ==
  ASSUME NativeInv, NEW r \in {Negotiating, AwaitingPeer},
         NEW v \in {AwaitingPeer, Answering, AcceptCatch}, Onward(r, v),
         UNCHANGED <<processVars, flowVars, layerVars>>, Belated => Belated'
  PROVE  NativeRest'
<1> USE DEF NativeInv
<1>1. /\ runtime' = runtime /\ offered' = offered /\ ended' = ended /\ started' = started
      /\ answer' = answer /\ gameStarted' = gameStarted
      /\ publisher' = publisher /\ pipeline' = pipeline
      /\ state' = state /\ os' = os /\ signal' = signal /\ stopping' = stopping
  BY DEF processVars, flowVars, layerVars
<1>2. v # <<>>
  BY RestsBegin, AcceptCatchIs, ZenonT(60) DEF Forward
<1>3. NativeTypes'
  <2>1. todo' \in [Caller -> Seq(StepName)]
    BY OnwardMove
  <2> QED BY <1>1, <2>1 DEF NativeTypes
<1>4. ThreadsInv' /\ TurnInv' /\ FreshInv' /\ ReturnedInv' /\ PublisherInv'
  BY <1>2, OnwardKeeps
<1>5. "publish" \notin StepsIn(r) /\ "start game" \notin StepsIn(r)
  <2>1. StepsIn(r) \subseteq {"negotiate", "await peer", "answer"}
    BY RestsAre
  <2> QED BY <2>1
<1>6. /\ "publish" \notin StepsIn(v) /\ "pipeline failed" \notin StepsIn(v)
      /\ "start publisher" \notin StepsIn(v) /\ "start game" \notin StepsIn(v)
  <2>1. CASE v = AcceptCatch
    BY <2>1, AcceptCatchIs
  <2>2. CASE v \in {AwaitingPeer, Answering}
    <3>1. StepsIn(v) \subseteq {"await peer", "answer"}
      BY <2>2, RestsAre
    <3> QED BY <3>1
  <2> QED BY <2>1, <2>2
<1>7. OfferInv'
  BY <1>1, <1>5, <1>6, OnwardOffer
<1>8. GameInv'
  BY <1>1, <1>2, <1>5, OnwardGame DEF Unsafe
<1>9. PipelineInv'
  BY <1>1, <1>5, <1>6, OnwardPublished DEF Unsafe
<1> QED BY <1>3, <1>4, <1>7, <1>8, <1>9 DEF NativeRest

LEMMA NegotiateKeeps ==
  ASSUME NativeInv, NegotiateEnded \/ Negotiate
  PROVE  NativeRest'
<1> USE DEF NativeInv
<1>1. At("offer", "negotiate") /\ UNCHANGED <<processVars, flowVars, layerVars>>
  BY DEF NegotiateEnded, Negotiate
<1>2. /\ offered' = offered /\ ended' = ended /\ started' = started
      /\ publisher' = publisher /\ pipeline' = pipeline /\ stopping' = stopping
  BY <1>1 DEF processVars, flowVars, layerVars
<1>3. Goes /\ todo["offer"] \in Forward /\ Waiting("close") /\ Waiting("sink")
  <2>1. \A p \in Proc : StepOf[p] # "negotiate"
    BY StepNames, NativeAssumption
  <2> QED BY <1>1, <2>1, OfferTurn DEF ForwardSteps
<1>4. todo["offer"] = Negotiating
  BY <1>1, AtForward
<1>5. CASE NegotiateEnded
  <2>1. Instead("offer", AcceptCatch) /\ ended
    BY <1>5 DEF NegotiateEnded
  <2>2. Onward(Negotiating, AcceptCatch)
    BY <1>2, <1>3, <1>4, <2>1 DEF Onward
  <2>3. Belated => Belated'
    <3>1. todo'["offer"] = AcceptCatch
      BY <2>1, NativeAssumption DEF Instead, NativeTypes
    <3>2. Waiting("close")' /\ Waiting("sink")'
      BY <2>2, OnwardMove
    <3> QED BY <1>2, <3>1, <3>2 DEF Belated
  <2> QED BY <1>1, <2>2, <2>3, SettlingKeeps
<1>6. CASE Negotiate
  <2>1. Instead("offer", AwaitingPeer)
    <3>1. Then("offer", <<"await peer">>)
      BY <1>6 DEF Negotiate
    <3>2. Tail(todo["offer"]) = Answering
      BY <1>4, RestsBegin
    <3>3. AwaitingPeer = <<"await peer">> \o Answering
      BY DEF AwaitingPeer
    <3> QED BY <3>1, <3>2, <3>3 DEF Then, Instead
  <2>2. Onward(Negotiating, AwaitingPeer)
    <3>1. AwaitingPeer \in Forward
      BY DEF Forward
    <3> QED BY <1>2, <1>3, <1>4, <2>1, <3>1 DEF Onward
  <2>3. ~Belated
    BY <1>6 DEF Belated, Negotiate
  <2> QED BY <1>1, <2>2, <2>3, SettlingKeeps
<1> QED BY <1>5, <1>6

\* Where a belated offer is, and that it is due.
LEMMA BelatedAt ==
  ASSUME Belated
  PROVE  /\ todo["offer"] # <<>>
         /\ Head(todo["offer"]) \in {"negotiate", "end session", "stop publisher if started",
                                     "stop pipeline"}
<1>1. CASE todo["offer"] = Negotiating
  BY <1>1, RestsBegin DEF Forward
<1>2. CASE todo["offer"] \in {AcceptCatch, Tail(AcceptCatch)}
  BY <1>2, AcceptCatchIs
<1>3. CASE todo["offer"] = <<"stop pipeline", "publisher stopped">> \o Tail(Tail(AcceptCatch))
  <2>1. "stop pipeline" \in StepName /\ "publisher stopped" \in StepName
    BY DEF StepName, CatchSteps, CloseSteps, SinkSteps
  <2>2. <<"stop pipeline", "publisher stopped">> \in Seq(StepName)
    BY <2>1, SeqTwo
  <2>3. /\ <<"stop pipeline", "publisher stopped">> # <<>>
        /\ Head(<<"stop pipeline", "publisher stopped">>) = "stop pipeline"
    OBVIOUS
  <2>4. Tail(Tail(AcceptCatch)) \in Seq(StepName)
    BY AcceptCatchIs
  <2>5. /\ Head(<<"stop pipeline", "publisher stopped">> \o Tail(Tail(AcceptCatch))) = "stop pipeline"
        /\ <<"stop pipeline", "publisher stopped">> \o Tail(Tail(AcceptCatch)) # <<>>
    BY <2>2, <2>3, <2>4, HeadOfBoth
  <2> QED BY <1>3, <2>5
<1> QED BY <1>1, <1>2, <1>3 DEF Belated

LEMMA BelatedDue ==
  ASSUME Belated
  PROVE  Due
<1>1. "offer" \in Caller
  BY NativeAssumption
<1>2. /\ todo["offer"] # <<>>
      /\ Head(todo["offer"]) \in {"negotiate", "end session", "stop publisher if started",
                                  "stop pipeline"}
  BY BelatedAt
<1>3. \A p \in Proc : Head(todo["offer"]) # StepOf[p] /\ Head(todo["offer"]) # Awaits[p]
  BY <1>2, StepNames, NativeAssumption
<1>4. ~Waiting("offer")
  BY <1>2, <1>3 DEF Waiting, At
<1> QED BY <1>1, <1>4 DEF Due

LEMMA PeerSettlesKeeps ==
  ASSUME NativeInv, ~Due, PeerSettles
  PROVE  NativeRest'
<1> USE DEF NativeInv
<1>1. At("offer", "await peer") /\ UNCHANGED <<processVars, flowVars, layerVars>>
  BY DEF PeerSettles
<1>2. offered' = offered /\ ended' = ended /\ stopping' = stopping
  BY <1>1 DEF processVars, flowVars
<1>3. Waiting("close") /\ Waiting("sink")
  BY NativeAssumption DEF Due
<1>4. todo["offer"] = AwaitingPeer
  BY <1>1, AtForward
<1>5. AwaitingPeer \in Forward /\ Answering \in Forward
  BY DEF Forward
<1>6. Instead("offer", Answering) \/ Instead("offer", AcceptCatch)
  BY <1>4, <1>5, NextRest, RestsBegin DEF PeerSettles
<1>7. ~Belated
  BY BelatedDue
<1>8. CASE Instead("offer", Answering)
  <2>1. Onward(AwaitingPeer, Answering)
    BY <1>2, <1>3, <1>4, <1>5, <1>8 DEF Onward
  <2> QED BY <1>1, <1>7, <2>1, SettlingKeeps
<1>9. CASE Instead("offer", AcceptCatch)
  <2>1. Onward(AwaitingPeer, AcceptCatch)
    BY <1>2, <1>3, <1>4, <1>5, <1>9 DEF Onward
  <2> QED BY <1>1, <1>7, <2>1, SettlingKeeps
<1> QED BY <1>6, <1>8, <1>9

LEMMA AnswerKeeps ==
  ASSUME NativeInv, Answer
  PROVE  NativeRest'
<1> USE DEF NativeInv
<1>1. /\ At("offer", "answer")
      /\ UNCHANGED <<processVars, offered, ended, layerVars, started>>
  BY DEF Answer
<1>2. /\ offered' = offered /\ ended' = ended /\ started' = started
      /\ gameStarted' = gameStarted /\ publisher' = publisher /\ pipeline' = pipeline
      /\ state' = state /\ os' = os /\ signal' = signal /\ stopping' = stopping
  BY <1>1 DEF processVars, layerVars
<1>3. Goes /\ todo["offer"] \in Forward /\ Waiting("close") /\ Waiting("sink")
  <2>1. \A p \in Proc : StepOf[p] # "answer"
    BY StepNames, NativeAssumption
  <2> QED BY <1>1, <2>1, OfferTurn DEF ForwardSteps
<1>4. todo["offer"] = Answering
  BY <1>1, AtForward
<1>5. PICK v \in {<<>>, RuntimeCatch} :
        /\ Instead("offer", v)
        /\ v = <<>> => ~BridgeClosed /\ runtime' = "connected" /\ answer' = "accepted"
        /\ v # <<>> => BridgeClosed /\ runtime' = "revived" /\ answer' = answer
  <2>1. CASE BridgeClosed
    <3>1. Instead("offer", RuntimeCatch) /\ runtime' = "revived" /\ answer' = answer
      BY <2>1 DEF Answer
    <3> QED BY <2>1, <3>1, RuntimeCatchIs
  <2>2. CASE ~BridgeClosed
    <3>1. Then("offer", <<>>) /\ runtime' = "connected" /\ answer' = "accepted"
      BY <2>2 DEF Answer
    <3>2. Instead("offer", <<>>)
      BY <1>3, <1>4, <3>1, NextRest, RestsBegin
    <3> QED BY <2>2, <3>1, <3>2
  <2> QED BY <2>1, <2>2
<1>6. Onward(Answering, v)
  BY <1>2, <1>3, <1>4, <1>5 DEF Onward
<1>7. StepsIn(Answering) = {"answer"}
  BY RestsAre
<1>8. /\ StepsIn(v) \subseteq {"end session", "stop publisher", "stop game if started", "give up"}
      /\ v = <<>> => StepsIn(v) = {}
      /\ v \notin Forward
  <2>1. CASE v = <<>>
    BY <2>1, InNone, RestsBegin
  <2>2. CASE v = RuntimeCatch
    <3>1. "answer" \notin StepsIn(v)
      BY <2>2, RuntimeCatchIs
    <3> QED BY <2>2, <3>1, RuntimeCatchIs, RestOrCatch
  <2> QED BY <1>5, <2>1, <2>2
<1>9. /\ Owed("offer")' = StepsIn(v) /\ offered /\ ~Goes'
      /\ \A s \in Caller : s # "offer" => Owed(s)' = Owed(s)
  BY <1>6, <1>8, OnwardMove
<1>10. v = <<>> => Alive'
  BY <1>2, <1>5, <1>8, <1>9 DEF Alive
<1>11. NativeTypes'
  <2>1. todo' \in [Caller -> Seq(StepName)]
    BY <1>6, OnwardMove
  <2>2. runtime' \in {"connected", "revived"} /\ answer' \in {answer, "accepted"}
    BY <1>5
  <2> QED BY <1>2, <2>1, <2>2 DEF NativeTypes
<1>12. ThreadsInv' /\ TurnInv' /\ FreshInv' /\ ReturnedInv' /\ PublisherInv'
  BY <1>6, <1>10, OnwardKeeps
<1>13. OfferInv'
  <2>1. Owed("close")' # {} => BridgeClosed'
    BY <1>5, <1>9, NativeAssumption DEF OfferInv, BridgeClosed
  <2>2. /\ "publish" \notin Owed("offer")' /\ "start publisher" \notin Owed("offer")'
        /\ "start game" \notin Owed("offer")'
    <3>1. /\ "publish" \notin StepsIn(v) /\ "start publisher" \notin StepsIn(v)
          /\ "start game" \notin StepsIn(v)
      BY <1>8
    <3> QED BY <1>9, <3>1
  <2> QED BY <1>9, <2>1, <2>2 DEF OfferInv
<1>14. GameInv'
  <2>1. gameStarted => gameStarted'
    BY <1>2
  <2>2. Unsafe("game")' => Unsafe("game")
    BY <1>2 DEF Unsafe
  <2>3. "start game" \notin StepsIn(Answering)
    BY <1>7
  <2> QED BY <1>6, <1>10, <2>1, <2>2, <2>3, OnwardGame
<1>15. PipelineInv'
  <2>1. ~Belated
    BY <1>1, BelatedAt DEF At
  <2>2. /\ "publish" \notin StepsIn(Answering) /\ "publish" \notin StepsIn(v)
        /\ "pipeline failed" \notin StepsIn(v)
    BY <1>7, <1>8
  <2> QED BY <1>2, <1>6, <2>1, <2>2, OnwardPublished DEF Unsafe
<1> QED BY <1>11, <1>12, <1>13, <1>14, <1>15 DEF NativeRest

LEMMA GiveUpKeeps ==
  ASSUME NativeInv, GiveUp
  PROVE  NativeRest'
<1> USE DEF NativeInv
<1>1. /\ At("offer", "give up") /\ Then("offer", <<>>)
      /\ runtime' = "closed" /\ offered' = FALSE
      /\ UNCHANGED <<processVars, ended, layerVars, started, answer>>
  BY DEF GiveUp
<1>2. /\ ended' = ended /\ started' = started /\ answer' = answer
      /\ gameStarted' = gameStarted /\ publisher' = publisher /\ pipeline' = pipeline
      /\ state' = state /\ os' = os /\ signal' = signal /\ stopping' = stopping
  BY <1>1 DEF processVars, layerVars
<1>3. "offer" \in Caller /\ Caller = {"offer", "close", "sink"}
  BY NativeAssumption
<1>4. /\ <<>> \in Seq(StepName) /\ StepsIn(<<>>) = {}
      /\ todo["offer"] # <<>> /\ Head(todo["offer"]) = "give up"
  BY <1>1, EmptySeq, InNone DEF At
<1>5. /\ todo' \in [Caller -> Seq(StepName)]
      /\ \A s \in Caller : s # "offer" => todo'[s] = todo[s]
      /\ Owed("offer") = {"give up"} \cup Owed("offer")'
      /\ Owed("offer")' = StepsIn(Tail(todo["offer"]))
      /\ todo'["offer"] # <<>> =>
           StepsIn(Tail(todo'["offer"])) \subseteq StepsIn(Tail(todo["offer"]))
  <2>1. /\ todo' \in [Caller -> Seq(StepName)]
        /\ \A s \in Caller : s # "offer" => todo'[s] = todo[s]
        /\ Owed("offer") = {"give up"} \cup StepsIn(Tail(todo["offer"]))
        /\ Owed("offer")' = StepsIn(<<>>) \cup StepsIn(Tail(todo["offer"]))
    BY <1>1, <1>3, <1>4, ThenOwed
  <2>2. todo'["offer"] # <<>> =>
          StepsIn(Tail(todo'["offer"])) \subseteq StepsIn(Tail(todo["offer"]))
    BY <1>1, <1>3, <1>4, ThenOwed
  <2> QED BY <1>4, <2>1, <2>2
<1>6. \A s \in Caller : s # "offer" => Owed(s)' = Owed(s)
  BY <1>5 DEF Owed
<1>7. ~Goes /\ Owed("offer") \subseteq CatchSteps
  <2>1. "give up" \in Owed("offer") /\ "give up" \notin ForwardSteps
    BY <1>5 DEF ForwardSteps
  <2> QED BY <2>1, GoesIs
<1>8. ~Goes' /\ "publish" \notin Owed("offer")' /\ "start publisher" \notin Owed("offer")'
      /\ "start game" \notin Owed("offer")' /\ "publish" \notin Owed("offer")
      /\ "start game" \notin Owed("offer")
  <2>1. \A h \in ForwardSteps : h \notin CatchSteps
    BY DEF ForwardSteps, CatchSteps, CloseSteps, SinkSteps
  <2>2. \A h \in ForwardSteps : h \notin Owed("offer") /\ h \notin Owed("offer")'
    BY <1>5, <1>7, <2>1
  <2> QED BY <2>2 DEF Goes, ForwardSteps
<1>9. NativeTypes'
  BY <1>1, <1>2, <1>5 DEF NativeTypes
<1>10. ThreadsInv'
  <2>1. /\ Owed("offer")' \subseteq CatchSteps
        /\ Owed("close")' \subseteq CloseSteps /\ Owed("sink")' \subseteq SinkSteps
    BY <1>3, <1>5, <1>6, <1>7 DEF ThreadsInv
  <2>2. \A s \in Caller : todo'[s] # <<>> => StepsIn(Tail(todo'[s])) \cap AwaitSteps = {}
    BY <1>3, <1>4, <1>5 DEF ThreadsInv
  <2>3. todo'["close"] # <<>> =>
          /\ "end session" \notin StepsIn(Tail(todo'["close"]))
          /\ ended' \/ At("close", "end session")'
    BY <1>2, <1>3, <1>5 DEF ThreadsInv, At
  <2> QED BY <2>1, <2>2, <2>3 DEF ThreadsInv
<1>11. TurnInv' /\ FreshInv'
  BY <1>1, <1>8 DEF TurnInv, FreshInv
<1>12. OfferInv'
  BY <1>1, <1>8 DEF OfferInv, BridgeClosed
<1>13. ReturnedInv'
  <2>1. \A p \in Proc : ~At("offer", Awaits[p])'
    <3>1. \A p \in Proc : Awaits[p] \in AwaitSteps
      BY StepNames
    <3>2. StepsIn(Tail(todo["offer"])) \cap AwaitSteps = {}
      BY <1>3, <1>4 DEF ThreadsInv
    <3>3. todo'["offer"] # <<>> => Head(todo'["offer"]) \in Owed("offer")'
      BY <1>3, <1>5, InTail DEF Owed
    <3>4. todo'["offer"] # <<>> => Head(todo'["offer"]) \notin AwaitSteps
      BY <1>5, <3>2, <3>3
    <3> QED BY <3>1, <3>4 DEF At
  <2>2. ASSUME NEW s \in Caller, NEW p \in Proc, At(s, Awaits[p])', stopping'[p][s] = "returned"
        PROVE  ~Unsafe(p)'
    <3>1. s # "offer"
      BY <2>1, <2>2
    <3>2. At(s, Awaits[p])
      BY <1>5, <2>2, <3>1 DEF At
    <3>3. ~Unsafe(p)
      BY <1>2, <2>2, <3>2 DEF ReturnedInv
    <3> QED BY <1>2, <3>3 DEF Unsafe
  <2> QED BY <2>2 DEF ReturnedInv
<1>14. \A S : "give up" \notin S => (Owes(S)' <=> Owes(S))
  BY <1>3, <1>5, <1>6 DEF Owes
<1>15. ~Alive
  BY <1>5 DEF Alive
<1>16. PublisherInv'
  BY <1>2, <1>7, <1>14, <1>15 DEF PublisherInv, PublisherIdle
<1>17. GameInv'
  <2>1. Unsafe("game")' <=> Unsafe("game")
    BY <1>2 DEF Unsafe
  <2>2. gameStarted' => Owes({"stop game if started", "game stopped"})'
    BY <1>2, <1>7, <1>14, <1>15 DEF GameInv
  <2>3. Unsafe("game")' => gameStarted' \/ Owes({"stop game", "await game"})'
    BY <1>2, <1>8, <1>14, <2>1 DEF GameInv
  <2>4. Owes({"game stopped"})' /\ Unsafe("game")' => Owes({"stop game", "await game"})'
    BY <1>14, <2>1 DEF GameInv
  <2> QED BY <2>2, <2>3, <2>4 DEF GameInv
<1>18. PipelineInv'
  <2>1. ~Belated
    BY <1>4, BelatedAt
  <2>2. (Busy' <=> Busy) /\ (PublisherIdle' <=> PublisherIdle)
    BY <1>2 DEF Busy, PublisherIdle
  <2>3. \A p \in {"encoder", "capture"} :
          (Unsafe(p)' <=> Unsafe(p)) /\ (Owes(StopOf(p))' <=> Owes(StopOf(p)))
    <3>1. \A p \in {"encoder", "capture"} : "give up" \notin StopOf(p)
      BY StepNames DEF StopOf
    <3>2. \A p \in {"encoder", "capture"} : Owes(StopOf(p))' <=> Owes(StopOf(p))
      BY <1>14, <3>1 DEF StopOf
    <3> QED BY <1>2, <3>2 DEF Unsafe
  <2>4. /\ Owes({"pipeline stopped"})' <=> Owes({"pipeline stopped"})
        /\ Owes({"publisher stopped"})' <=> Owes({"publisher stopped"})
        /\ Owes({"stop pipeline", "pipeline stopped"})' <=> Owes({"stop pipeline", "pipeline stopped"})
    BY <1>14
  <2>5. "pipeline failed" \in Owed("offer")' => "pipeline failed" \in Owed("offer")
    BY <1>5
  <2> QED BY <1>8, <2>1, <2>2, <2>3, <2>4, <2>5 DEF PipelineInv
<1> QED
  BY <1>9, <1>10, <1>11, <1>12, <1>13, <1>16, <1>17, <1>18 DEF NativeRest
-----------------------------------------------------------------------------
(***************************************************************************)
(* The invariant is kept: the outside events.                              *)
(***************************************************************************)
ThreadsStill == UNCHANGED <<runtime, offered, ended, started, layerVars, todo>>

\* The three threads stand still, and a process can only become harmless.
LEMMA EventKeeps ==
  ASSUME NativeInv, ThreadsStill,
         answer' \in {answer, "rejected"},
         \A p \in Proc : Unsafe(p)' => Unsafe(p),
         \A p \in Proc : os[p] = "none" => os'[p] = "none",
         TurnInv', ReturnedInv', Belated => Belated'
  PROVE  NativeRest'
<1> USE DEF NativeInv
<1>1. /\ runtime' = runtime /\ offered' = offered /\ ended' = ended /\ started' = started
      /\ todo' = todo
      /\ publisher' = publisher /\ pipeline' = pipeline /\ gameStarted' = gameStarted
  BY DEF ThreadsStill, layerVars
<1>2. Proc = {"game", "encoder", "capture"} /\ Caller = {"offer", "close", "sink"}
  BY NativeAssumption
<1>3. \A t \in Caller : Owed(t)' = Owed(t)
  BY <1>1 DEF Owed
<1>4. \A S : Owes(S)' <=> Owes(S)
  BY <1>3 DEF Owes
<1>5. Owed("offer")' = Owed("offer") /\ (Goes' <=> Goes)
  BY <1>2, <1>3 DEF Goes
<1>6. /\ (BridgeClosed' <=> BridgeClosed) /\ (PublisherIdle' <=> PublisherIdle)
      /\ (Busy' <=> Busy) /\ (Alive' <=> Alive)
  <2>1. /\ (BridgeClosed' <=> BridgeClosed) /\ (PublisherIdle' <=> PublisherIdle)
        /\ (Busy' <=> Busy)
    BY <1>1 DEF BridgeClosed, PublisherIdle, Busy
  <2>2. Alive' <=> Alive
    BY <1>1, <1>5 DEF Alive
  <2> QED BY <2>1, <2>2
<1>7. NativeTypes'
  BY <1>1 DEF NativeTypes
<1>8. ThreadsInv'
  <2>1. /\ todo'["offer"] \in Forward \/ Owed("offer")' \subseteq CatchSteps
        /\ Owed("close")' \subseteq CloseSteps /\ Owed("sink")' \subseteq SinkSteps
    BY <1>1, <1>2, <1>3 DEF ThreadsInv
  <2>2. \A t \in Caller : todo'[t] # <<>> => StepsIn(Tail(todo'[t])) \cap AwaitSteps = {}
    BY <1>1 DEF ThreadsInv
  <2>3. todo'["close"] # <<>> =>
          /\ "end session" \notin StepsIn(Tail(todo'["close"]))
          /\ ended' \/ At("close", "end session")'
    BY <1>1 DEF ThreadsInv, At
  <2> QED BY <2>1, <2>2, <2>3 DEF ThreadsInv
<1>9. OfferInv'
  <2>1. /\ os["encoder"] = "none" => os'["encoder"] = "none"
        /\ os["capture"] = "none" => os'["capture"] = "none"
    BY <1>2
  <2>2. Owed("close")' = Owed("close") /\ Owed("sink")' = Owed("sink")
    BY <1>2, <1>3
  <2> QED BY <1>1, <1>3, <1>5, <1>6, <2>1, <2>2 DEF OfferInv
<1>10. FreshInv'
  <2>1. Owed("close")' = Owed("close") /\ Owed("sink")' = Owed("sink")
    BY <1>2, <1>3
  <2> QED BY <1>1, <1>5, <2>1 DEF FreshInv
<1>11. PublisherInv'
  BY <1>4, <1>5, <1>6 DEF PublisherInv
<1>12. GameInv'
  BY <1>1, <1>2, <1>4, <1>5, <1>6 DEF GameInv
<1>13. PipelineInv'
  <2>1. \A p \in {"encoder", "capture"} : Unsafe(p)' => Unsafe(p)
    BY <1>2
  <2>2. ASSUME NEW p \in {"encoder", "capture"}
        PROVE  Owes(StopOf(p))' <=> Owes(StopOf(p))
    <3>1. Owes({Stops[p], Awaits[p]})' <=> Owes({Stops[p], Awaits[p]})
      BY <1>4
    <3> QED BY <3>1 DEF StopOf
  <2> QED BY <1>1, <1>4, <1>5, <1>6, <2>1, <2>2 DEF PipelineInv
<1> QED BY <1>7, <1>8, <1>9, <1>10, <1>11, <1>12, <1>13 DEF NativeRest

LEMMA StandsStillKeeps ==
  ASSUME NativeInv, OfferRejected \/ UNCHANGED hostVars
  PROVE  NativeRest'
<1>1. /\ ThreadsStill
      /\ answer' \in {answer, "rejected"}
      /\ state' = state /\ os' = os /\ signal' = signal /\ stopping' = stopping /\ todo' = todo
  BY DEF ThreadsStill, OfferRejected, hostVars, nativeVars, flowVars, layerVars, processVars
<1>2. TurnInv' /\ ReturnedInv' /\ (Belated => Belated')
  BY <1>1, ZenonT(60)
     DEF NativeInv, TurnInv, ReturnedInv, Belated, Goes, Owed, Waiting, At, Unsafe, ThreadsStill, layerVars
<1> QED BY <1>1, <1>2, EventKeeps DEF Unsafe

LEMMA ProgramEndsKeeps ==
  ASSUME NativeInv, NEW q \in Proc, ProgramEnds(q)
  PROVE  NativeRest'
<1>1. Exit(q) /\ UNCHANGED nativeVars
  BY DEF ProgramEnds
<1>2. /\ ThreadsStill
      /\ answer' = answer /\ todo' = todo
      /\ state' = state /\ signal' = signal /\ stopping' = stopping
  BY <1>1 DEF ThreadsStill, nativeVars, flowVars, layerVars, Exit
<1>3. /\ \A p \in Proc : Unsafe(p)' => Unsafe(p)
      /\ \A p \in Proc : os[p] = "none" => os'[p] = "none"
  BY <1>1, ChildShrinks DEF NativeInv
<1>4. TurnInv' /\ ReturnedInv' /\ (Belated => Belated')
  BY <1>2, <1>3 DEF NativeInv, TurnInv, ReturnedInv, Belated, Goes, Owed, Waiting, At, ThreadsStill,
      layerVars
<1> QED BY <1>2, <1>3, <1>4, EventKeeps

LEMMA ProcessEventKeeps ==
  ASSUME NativeInv, ~Due, ProcessEvent
  PROVE  NativeRest'
<1> USE DEF NativeInv
<1>1. PICK q \in Proc : Spawned(q) \/ SpawnError(q) \/ Finish(q)
                          \/ \E t \in Caller : StopStepOf(q, t)
  BY DEF ProcessEvent
<1>2. UNCHANGED nativeVars
  BY DEF ProcessEvent
<1>3. /\ ThreadsStill
      /\ answer' = answer /\ todo' = todo
  BY <1>2 DEF ThreadsStill, nativeVars, flowVars
<1>4. ~Belated /\ Waiting("offer") /\ Waiting("close") /\ Waiting("sink")
  BY BelatedDue, NativeAssumption DEF Due
<1>5. Goes => \A p \in Proc : ~At("offer", Awaits[p])
  <2>1. Goes => todo["offer"] \in Forward
    BY GoesIs
  <2>2. \A s \in Forward : Head(s) \in ForwardSteps
    BY RestsBegin, ZenonT(60) DEF Forward, ForwardSteps
  <2> QED BY <2>1, <2>2, StepNames DEF At
<1>6. (Goes' <=> Goes) /\ (\A t, h : At(t, h)' <=> At(t, h)) /\ (\A t : (todo[t] = <<>>)' <=> (todo[t] = <<>>))
  BY <1>3 DEF Goes, Owed, At
<1>7. CASE Spawned(q) \/ SpawnError(q)
  <2>1. stopping' = stopping
    BY <1>7 DEF Spawned, SpawnError
  <2>2. /\ \A p \in Proc : Unsafe(p)' => Unsafe(p)
        /\ \A p \in Proc : os[p] = "none" => os'[p] = "none"
    BY <1>7, ChildShrinks
  <2>3. TurnInv'
    <3>1. Waiting("close")' /\ Waiting("sink")'
      BY <1>4, <1>6, <2>1 DEF Waiting
    <3> QED BY <3>1 DEF TurnInv
  <2>4. ReturnedInv'
    BY <1>6, <2>1, <2>2 DEF ReturnedInv
  <2> QED BY <1>3, <1>4, <2>2, <2>3, <2>4, EventKeeps
<1>8. ASSUME \A p \in Proc : state[p] = "starting" => state'[p] = "starting"
      PROVE  TurnInv'
  <2>1. Goes => Waiting("offer")'
    BY <1>4, <1>5, <1>6, <1>8 DEF Waiting
  <2> QED BY <1>6, <2>1 DEF TurnInv
<1>9. CASE Finish(q)
  <2>1. /\ \A p \in Proc : Unsafe(p)' => Unsafe(p)
        /\ \A p \in Proc : os[p] = "none" => os'[p] = "none"
        /\ \A p \in Proc : p # q => state'[p] = state[p]
    BY <1>9, ChildShrinks
  <2>2. /\ os[q] \in {"exited", "refused"} /\ os'[q] = "gone"
        /\ \A p \in Proc : p # q => stopping'[p] = stopping[p]
    BY <1>9 DEF Finish, ProcessInv, ProcessTypeOK
  <2>3. state[q] # "starting"
    BY <2>2 DEF ProcessInv, ChildInv
  <2>4. ReturnedInv'
    <3>1. ~Unsafe(q)'
      BY <2>2 DEF Unsafe
    <3> QED BY <1>6, <2>1, <2>2, <3>1 DEF ReturnedInv
  <2> QED BY <1>3, <1>4, <1>8, <2>1, <2>3, <2>4, EventKeeps
<1>10. CASE \E t \in Caller : StopStepOf(q, t)
  <2>1. PICK t \in Caller : StopStepOf(q, t)
    BY <1>10
  <2>2. /\ os' = os
        /\ \A p \in Proc : Unsafe(p)' => Unsafe(p)
        /\ \A p \in Proc : state[p] = "starting" => state'[p] = "starting"
        /\ \A p \in Proc, d \in Caller :
             p # q \/ d # t => stopping'[p][d] = stopping[p][d]
        /\ stopping'[q][t] = "returned" => ~Unsafe(q)'
    BY <2>1, StopShrinks
  <2>3. ReturnedInv'
    BY <1>6, <2>2 DEF ReturnedInv
  <2> QED BY <1>3, <1>4, <1>8, <2>2, <2>3, EventKeeps
<1> QED BY <1>1, <1>7, <1>9, <1>10

LEMMA MessageFailsKeeps ==
  ASSUME NativeInv, MessageFails
  PROVE  NativeRest'
<1> USE DEF NativeInv
<1>1. /\ runtime = "connected" /\ runtime' = "error"
      /\ offered' = offered /\ ended' = ended /\ started' = started
      /\ answer' = answer /\ todo' = todo
      /\ publisher' = publisher /\ pipeline' = pipeline /\ gameStarted' = gameStarted
      /\ state' = state /\ os' = os /\ signal' = signal /\ stopping' = stopping
  BY DEF MessageFails, processVars, layerVars
<1>2. Proc = {"game", "encoder", "capture"} /\ Caller = {"offer", "close", "sink"}
  BY NativeAssumption
<1>3. \A t \in Caller : Owed(t)' = Owed(t)
  BY <1>1 DEF Owed
<1>4. \A S : Owes(S)' <=> Owes(S)
  BY <1>3 DEF Owes
<1>5. Owed("offer")' = Owed("offer") /\ ~Goes /\ ~Goes' /\ Owed("close")' = {}
  BY <1>1, <1>2, <1>3 DEF Goes, OfferInv, BridgeClosed
<1>6. (PublisherIdle' <=> PublisherIdle) /\ (Busy' <=> Busy)
  BY <1>1 DEF PublisherIdle, Busy
<1>7. Alive' <=> Alive
  BY <1>1, <1>5 DEF Alive
<1>8. \A p \in Proc : Unsafe(p)' <=> Unsafe(p)
  BY <1>1 DEF Unsafe
<1>9. /\ "publish" \notin Owed("offer") /\ "start publisher" \notin Owed("offer")
      /\ "start game" \notin Owed("offer")
  BY <1>5, GoesIs DEF CatchSteps, CloseSteps, SinkSteps
<1>10. NativeTypes' /\ FreshInv'
  BY <1>1 DEF NativeTypes, FreshInv
<1>11. ThreadsInv'
  <2>1. /\ todo'["offer"] \in Forward \/ Owed("offer")' \subseteq CatchSteps
        /\ Owed("close")' \subseteq CloseSteps /\ Owed("sink")' \subseteq SinkSteps
    BY <1>1, <1>2, <1>3 DEF ThreadsInv
  <2>2. \A t \in Caller : todo'[t] # <<>> => StepsIn(Tail(todo'[t])) \cap AwaitSteps = {}
    BY <1>1 DEF ThreadsInv
  <2>3. todo'["close"] # <<>> =>
          /\ "end session" \notin StepsIn(Tail(todo'["close"]))
          /\ ended' \/ At("close", "end session")'
    BY <1>1 DEF ThreadsInv, At
  <2> QED BY <2>1, <2>2, <2>3 DEF ThreadsInv
<1>12. TurnInv'
  BY <1>5 DEF TurnInv
<1>13. OfferInv'
  BY <1>5, <1>9 DEF OfferInv
<1>14. ReturnedInv'
  BY <1>1, <1>8 DEF ReturnedInv, At
<1>15. PublisherInv'
  BY <1>4, <1>5, <1>6, <1>7 DEF PublisherInv
<1>16. GameInv'
  <2>1. Unsafe("game")' <=> Unsafe("game")
    BY <1>2, <1>8
  <2> QED BY <1>1, <1>4, <1>5, <1>7, <1>9, <2>1 DEF GameInv
<1>17. PipelineInv'
  <2>1. \A p \in {"encoder", "capture"} : Unsafe(p)' <=> Unsafe(p)
    BY <1>2, <1>8
  <2>2. ASSUME NEW p \in {"encoder", "capture"}
        PROVE  Owes(StopOf(p))' <=> Owes(StopOf(p))
    <3>1. Owes({Stops[p], Awaits[p]})' <=> Owes({Stops[p], Awaits[p]})
      BY <1>4
    <3> QED BY <3>1 DEF StopOf
  <2>3. Belated => Belated'
    BY <1>1 DEF Belated, Waiting, At
  <2> QED BY <1>4, <1>5, <1>6, <1>9, <2>1, <2>2, <2>3 DEF PipelineInv
<1> QED
  BY <1>10, <1>11, <1>12, <1>13, <1>14, <1>15, <1>16, <1>17 DEF NativeRest

\* A thread that had nothing to do begins, while every other stands still.
Begins(t, u) ==
  /\ t \in {"close", "sink"} /\ todo[t] = <<>> /\ ~Due
  /\ u \in Seq(StepName) /\ Instead(t, u)
  /\ UNCHANGED <<processVars, ended, offered>>

LEMMA BeginsMove ==
  ASSUME NativeTypes, ThreadsInv, NEW t, NEW u, Begins(t, u)
  PROVE  /\ todo' \in [Caller -> Seq(StepName)]
         /\ \A s \in Caller : s # t => todo'[s] = todo[s] /\ Owed(s)' = Owed(s)
         /\ Owed(t) = {} /\ Owed(t)' = StepsIn(u)
         /\ (Goes' <=> Goes) /\ Owed("offer")' = Owed("offer")
         /\ \A S : Owes(S) => Owes(S)'
         /\ \A S : Owes(S)' => Owes(S) \/ StepsIn(u) \cap S # {}
         /\ \A S : StepsIn(u) \cap S # {} => Owes(S)'
<1>1. t \in Caller /\ t # "offer" /\ "offer" \in Caller
  BY NativeAssumption DEF Begins
<1>2. /\ todo' \in [Caller -> Seq(StepName)] /\ Owed(t)' = StepsIn(u)
      /\ \A s \in Caller : s # t => todo'[s] = todo[s]
  BY <1>1, InsteadOwed DEF Begins
<1>3. \A s \in Caller : s # t => Owed(s)' = Owed(s)
  BY <1>2 DEF Owed
<1>4. Owed(t) = {}
  BY InNone DEF Begins, Owed
<1>5. Owed("offer")' = Owed("offer")
  BY <1>1, <1>3
<1>6. \A S : Owes(S) => Owes(S)'
  BY <1>3, <1>4 DEF Owes
<1>7. \A S : Owes(S)' => Owes(S) \/ StepsIn(u) \cap S # {}
  BY <1>2, <1>3 DEF Owes
<1>8. \A S : StepsIn(u) \cap S # {} => Owes(S)'
  BY <1>1, <1>2 DEF Owes
<1> QED BY <1>2, <1>3, <1>4, <1>5, <1>6, <1>7, <1>8 DEF Goes

LEMMA BeginsKeeps ==
  ASSUME NativeInv, NEW t, NEW u, Begins(t, u),
         StepsIn(u) \cap AwaitSteps = {},
         StepsIn(u) \subseteq IF t = "sink" THEN SinkSteps ELSE CloseSteps,
         t = "close" /\ u # <<>> =>
           Head(u) = "end session" /\ "end session" \notin StepsIn(Tail(u))
  PROVE  ThreadsInv' /\ TurnInv' /\ ReturnedInv'
<1> USE DEF NativeInv
<1>1. /\ \A s \in Caller : s # t => todo'[s] = todo[s] /\ Owed(s)' = Owed(s)
      /\ Owed(t)' = StepsIn(u) /\ (Goes' <=> Goes)
      /\ Owed("offer")' = Owed("offer")
  BY BeginsMove
<1>2. /\ Caller = {"offer", "close", "sink"} /\ t \in {"close", "sink"}
      /\ todo'[t] = u
  BY NativeAssumption, InsteadOwed DEF Begins
<1>3. /\ state' = state /\ os' = os /\ signal' = signal /\ stopping' = stopping /\ ended' = ended
  BY DEF Begins, processVars
<1>4. u # <<>> => StepsIn(u) = {Head(u)} \cup StepsIn(Tail(u))
  BY InTail DEF Begins
<1>5. ThreadsInv'
  <2>1. todo'["offer"] \in Forward \/ Owed("offer")' \subseteq CatchSteps
    BY <1>1, <1>2 DEF ThreadsInv
  <2>2. Owed("close")' \subseteq CloseSteps /\ Owed("sink")' \subseteq SinkSteps
    BY <1>1, <1>2 DEF ThreadsInv
  <2>3. \A s \in Caller : todo'[s] # <<>> => StepsIn(Tail(todo'[s])) \cap AwaitSteps = {}
    BY <1>1, <1>2, <1>4 DEF ThreadsInv
  <2>4. ASSUME todo'["close"] # <<>>
        PROVE  /\ "end session" \notin StepsIn(Tail(todo'["close"]))
               /\ ended' \/ At("close", "end session")'
    <3>1. CASE t = "close"
      BY <1>2, <2>4, <3>1 DEF At
    <3>2. CASE t = "sink"
      <4>1. todo'["close"] = todo["close"]
        BY <1>1, <1>2, <3>2
      <4> QED BY <1>3, <2>4, <4>1 DEF ThreadsInv, At
    <3> QED BY <1>2, <3>1, <3>2
  <2> QED BY <2>1, <2>2, <2>3, <2>4 DEF ThreadsInv
<1>6. TurnInv'
  <2>1. Waiting("offer") /\ todo'["offer"] = todo["offer"]
    BY <1>1, <1>2 DEF Begins, Due
  <2>2. Waiting("offer")'
    BY <1>3, <2>1 DEF Waiting, At
  <2> QED BY <2>2 DEF TurnInv
<1>7. ReturnedInv'
  <2>1. \A p \in Proc : ~At(t, Awaits[p])'
    <3>1. \A p \in Proc : Awaits[p] \in AwaitSteps
      BY StepNames
    <3> QED BY <1>2, <1>4, <3>1 DEF At
  <2>2. ASSUME NEW s \in Caller, NEW p \in Proc, At(s, Awaits[p])', stopping'[p][s] = "returned"
        PROVE  ~Unsafe(p)'
    <3>1. s # t
      BY <2>1, <2>2
    <3>2. At(s, Awaits[p])
      BY <1>1, <2>2, <3>1 DEF At
    <3>3. ~Unsafe(p)
      BY <1>3, <2>2, <3>2 DEF ReturnedInv
    <3> QED BY <1>3, <3>3 DEF Unsafe
  <2> QED BY <2>2 DEF ReturnedInv
<1> QED BY <1>5, <1>6, <1>7

LEMMA CloseKeeps ==
  ASSUME NativeInv, ~Due, Close
  PROVE  NativeRest'
<1> USE DEF NativeInv
<1>1. /\ runtime # "closed" /\ runtime' = "closed" /\ todo["close"] = <<>>
      /\ UNCHANGED <<processVars, offered, ended, layerVars, started, answer>>
  BY DEF Close
<1>2. /\ offered' = offered /\ ended' = ended /\ started' = started /\ answer' = answer
      /\ publisher' = publisher /\ pipeline' = pipeline /\ gameStarted' = gameStarted
      /\ state' = state /\ os' = os /\ signal' = signal /\ stopping' = stopping
  BY <1>1 DEF processVars, layerVars
<1>3. PICK u \in {<<>>, CloseMedia} :
        /\ Instead("close", u)
        /\ offered => u = CloseMedia
  BY DEF Close
<1>4. /\ u \in Seq(StepName)
      /\ StepsIn(u) \subseteq {"end session", "stop publisher", "stop game if started"}
      /\ u = CloseMedia =>
           {"stop publisher", "stop game if started"} \subseteq StepsIn(u)
      /\ u # <<>> => Head(u) = "end session" /\ "end session" \notin StepsIn(Tail(u))
  <2>1. CASE u = <<>>
    BY <2>1, EmptySeq, InNone, CloseMediaIs
  <2>2. CASE u = CloseMedia
    BY <2>2, CloseMediaIs
  <2> QED BY <1>3, <2>1, <2>2
<1>5. Begins("close", u)
  BY <1>1, <1>2, <1>3, <1>4 DEF Begins, processVars
<1>6. /\ todo' \in [Caller -> Seq(StepName)]
      /\ \A s \in Caller : s # "close" => Owed(s)' = Owed(s)
      /\ Owed("close")' = StepsIn(u)
      /\ (Goes' <=> Goes) /\ Owed("offer")' = Owed("offer")
  BY <1>5, BeginsMove
<1>7. /\ \A S : Owes(S) => Owes(S)'
      /\ \A S : Owes(S)' => Owes(S) \/ StepsIn(u) \cap S # {}
      /\ \A S : StepsIn(u) \cap S # {} => Owes(S)'
  BY <1>5, BeginsMove
<1>8. Proc = {"game", "encoder", "capture"} /\ Caller = {"offer", "close", "sink"}
  BY NativeAssumption
<1>9. NativeTypes'
  BY <1>1, <1>2, <1>6 DEF NativeTypes
<1>10. ThreadsInv' /\ TurnInv' /\ ReturnedInv'
  <2>1. StepsIn(u) \cap AwaitSteps = {} /\ StepsIn(u) \subseteq CloseSteps
    BY <1>4 DEF AwaitSteps, CloseSteps
  <2> QED BY <1>4, <1>5, <2>1, BeginsKeeps
<1>11. FreshInv'
  BY <1>1 DEF FreshInv
<1>12. OfferInv'
  <2>1. BridgeClosed'
    BY <1>1 DEF BridgeClosed
  <2>2. /\ Owed("sink")' = Owed("sink")
        /\ StepsIn(u) \cap {"stop pipeline", "pipeline stopped", "publisher stopped"} = {}
        /\ StepsIn(u) \cap {"stop game", "await game", "game stopped"} = {}
    BY <1>4, <1>6, <1>8
  <2>3. "start publisher" \in Owed("offer") =>
          \A t \in Caller :
            Owed(t)' \cap {"stop pipeline", "pipeline stopped", "publisher stopped"} = {}
    BY <1>6, <2>2 DEF OfferInv
  <2>4. "start game" \in Owed("offer") =>
          \A t \in Caller : Owed(t)' \cap {"stop game", "await game", "game stopped"} = {}
    BY <1>6, <2>2 DEF OfferInv
  <2>5. runtime' = "closed"
    BY <1>1
  <2> QED BY <1>2, <1>6, <2>1, <2>2, <2>3, <2>4, <2>5 DEF OfferInv
<1>13. Alive => {"stop publisher", "stop game if started"} \subseteq StepsIn(u)
  BY <1>3, <1>4 DEF Alive
<1>14. PublisherInv'
  <2>1. PublisherIdle' <=> PublisherIdle
    BY <1>2 DEF PublisherIdle
  <2>2. Alive => Owes({"stop publisher", "publisher stopped"})'
    BY <1>7, <1>13
  <2> QED BY <1>6, <1>7, <2>1, <2>2 DEF PublisherInv
<1>15. GameInv'
  <2>1. Unsafe("game")' <=> Unsafe("game")
    BY <1>2 DEF Unsafe
  <2>2. Alive => Owes({"stop game if started", "game stopped"})'
    BY <1>7, <1>13
  <2>3. gameStarted' => Goes' \/ Owes({"stop game if started", "game stopped"})'
    BY <1>2, <1>6, <1>7, <2>2 DEF GameInv
  <2>4. Unsafe("game")' =>
          gameStarted' \/ "start game" \in Owed("offer")' \/ Owes({"stop game", "await game"})'
    BY <1>2, <1>6, <1>7, <2>1 DEF GameInv
  <2>5. StepsIn(u) \cap {"game stopped"} = {}
    BY <1>4
  <2>6. Owes({"game stopped"})' => Owes({"game stopped"})
    BY <1>7, <2>5
  <2>7. Owes({"game stopped"})' /\ Unsafe("game")' => Owes({"stop game", "await game"})'
    BY <1>7, <2>1, <2>6 DEF GameInv
  <2> QED BY <2>3, <2>4, <2>7 DEF GameInv
<1>16. PipelineInv'
  <2>1. ~Belated
    BY BelatedDue
  <2>2. \A p \in {"encoder", "capture"} : Unsafe(p)' <=> Unsafe(p)
    BY <1>2 DEF Unsafe
  <2>3. ASSUME NEW p \in {"encoder", "capture"}
        PROVE  Owes(StopOf(p)) => Owes(StopOf(p))'
    <3>1. Owes({Stops[p], Awaits[p]}) => Owes({Stops[p], Awaits[p]})'
      BY <1>7
    <3> QED BY <3>1 DEF StopOf
  <2>4. StepsIn(u) \cap {"pipeline stopped"} = {} /\ StepsIn(u) \cap {"publisher stopped"} = {}
    BY <1>4
  <2>5. /\ Owes({"pipeline stopped"})' => Owes({"pipeline stopped"})
        /\ Owes({"publisher stopped"})' => Owes({"publisher stopped"})
    BY <1>7, <2>4
  <2>6. (PublisherIdle' <=> PublisherIdle) /\ (Busy' <=> Busy)
    BY <1>2 DEF PublisherIdle, Busy
  <2>7. Owes({"stop pipeline", "pipeline stopped"}) => Owes({"stop pipeline", "pipeline stopped"})'
    BY <1>7
  <2> QED BY <1>2, <1>6, <2>1, <2>2, <2>3, <2>5, <2>6, <2>7 DEF PipelineInv
<1> QED
  BY <1>9, <1>10, <1>11, <1>12, <1>14, <1>15, <1>16 DEF NativeRest

LEMMA SinkFailsKeeps ==
  ASSUME NativeInv, ~Due, SinkFails
  PROVE  NativeRest'
<1> USE DEF NativeInv
<1> DEFINE u == <<"stop pipeline">>
<1>1. /\ publisher = "active" /\ publisher' = "failed" /\ todo["sink"] = <<>>
      /\ Instead("sink", u)
  BY DEF SinkFails
<1>2. /\ runtime' = runtime /\ offered' = offered /\ ended' = ended /\ started' = started
      /\ answer' = answer /\ pipeline' = pipeline /\ gameStarted' = gameStarted
      /\ state' = state /\ os' = os /\ signal' = signal /\ stopping' = stopping
  BY DEF SinkFails, processVars, flowVars
<1>3. u \in Seq(StepName) /\ StepsIn(u) = {"stop pipeline"}
  <2>1. "stop pipeline" \in StepName
    BY DEF StepName, CatchSteps, CloseSteps, SinkSteps
  <2> QED BY <2>1, SeqOne, InOne
<1> HIDE DEF u
<1>4. Begins("sink", u)
  BY <1>1, <1>2, <1>3 DEF Begins, processVars
<1>5. /\ todo' \in [Caller -> Seq(StepName)]
      /\ \A s \in Caller : s # "sink" => Owed(s)' = Owed(s)
      /\ Owed("sink")' = StepsIn(u)
      /\ (Goes' <=> Goes) /\ Owed("offer")' = Owed("offer")
  BY <1>4, BeginsMove
<1>6. /\ \A S : Owes(S) => Owes(S)'
      /\ \A S : Owes(S)' => Owes(S) \/ StepsIn(u) \cap S # {}
      /\ \A S : StepsIn(u) \cap S # {} => Owes(S)'
  BY <1>4, BeginsMove
<1>7. Proc = {"game", "encoder", "capture"} /\ Caller = {"offer", "close", "sink"}
  BY NativeAssumption
<1>8. NativeTypes'
  BY <1>1, <1>2, <1>5 DEF NativeTypes
<1>9. ThreadsInv' /\ TurnInv' /\ ReturnedInv'
  <2>1. StepsIn(u) \cap AwaitSteps = {} /\ StepsIn(u) \subseteq SinkSteps
    BY <1>3 DEF AwaitSteps, SinkSteps
  <2> QED BY <1>4, <2>1, BeginsKeeps
<1>10. "publish" \notin Owed("offer") /\ "start publisher" \notin Owed("offer")
  BY <1>1 DEF OfferInv
<1>11. FreshInv'
  BY <1>1, <1>2 DEF FreshInv
<1>12. OfferInv'
  <2>1. BridgeClosed' <=> BridgeClosed
    BY <1>2 DEF BridgeClosed
  <2>2. Owed("close")' = Owed("close")
    BY <1>5, <1>7
  <2>3. "start game" \in Owed("offer") =>
          \A t \in Caller : Owed(t)' \cap {"stop game", "await game", "game stopped"} = {}
    <3>1. StepsIn(u) \cap {"stop game", "await game", "game stopped"} = {}
      BY <1>3
    <3> QED BY <1>5, <3>1 DEF OfferInv
  <2> QED BY <1>2, <1>5, <1>10, <2>1, <2>2, <2>3 DEF OfferInv
<1>13. PublisherInv'
  <2>1. Alive' <=> Alive
    BY <1>2, <1>5 DEF Alive
  <2>2. ~PublisherIdle
    BY <1>1 DEF PublisherIdle
  <2> QED BY <1>5, <1>6, <2>1, <2>2 DEF PublisherInv
<1>14. GameInv'
  <2>1. Unsafe("game")' <=> Unsafe("game")
    BY <1>2 DEF Unsafe
  <2>2. Alive' <=> Alive
    BY <1>2, <1>5 DEF Alive
  <2>3. StepsIn(u) \cap {"game stopped"} = {}
    BY <1>3
  <2>4. Owes({"game stopped"})' => Owes({"game stopped"})
    BY <1>6, <2>3
  <2> QED BY <1>2, <1>5, <1>6, <2>1, <2>2, <2>4 DEF GameInv
<1>15. PipelineInv'
  <2>1. ~Belated
    BY BelatedDue
  <2>2. \A p \in {"encoder", "capture"} : Unsafe(p)' <=> Unsafe(p)
    BY <1>2 DEF Unsafe
  <2>3. ASSUME NEW p \in {"encoder", "capture"}
        PROVE  Owes(StopOf(p)) => Owes(StopOf(p))'
    <3>1. Owes({Stops[p], Awaits[p]}) => Owes({Stops[p], Awaits[p]})'
      BY <1>6
    <3> QED BY <3>1 DEF StopOf
  <2>4. StepsIn(u) \cap {"pipeline stopped"} = {}
        /\ StepsIn(u) \cap {"stop pipeline", "pipeline stopped"} # {}
    BY <1>3
  <2>5. /\ Owes({"pipeline stopped"})' => Owes({"pipeline stopped"})
        /\ Owes({"stop pipeline", "pipeline stopped"})'
    BY <1>6, <2>4
  <2>6. Busy' <=> Busy
    BY <1>2 DEF Busy
  <2> QED BY <1>5, <1>10, <2>1, <2>2, <2>3, <2>5, <2>6 DEF PipelineInv
<1> QED
  BY <1>8, <1>9, <1>11, <1>12, <1>13, <1>14, <1>15 DEF NativeRest

LEMMA OfferKeeps ==
  ASSUME NativeInv, Offer
  PROVE  NativeRest'
<1> USE DEF NativeInv
<1>1. PICK v :
        /\ Instead("offer", v)
        /\ \/ v = AcceptOffer /\ offered' = TRUE
           \/ v = <<"give up">> /\ offered' = offered
  BY DEF Offer
<1> DEFINE Sent == v = AcceptOffer /\ offered' = TRUE
           Thrown == v = <<"give up">> /\ offered' = offered
<1>2. /\ runtime = "listening" /\ runtime' = "listening" /\ ~offered
      /\ ended' = ended /\ started' = started
      /\ answer' = answer /\ publisher' = publisher /\ pipeline' = pipeline
      /\ gameStarted' = gameStarted
      /\ state' = state /\ os' = os /\ signal' = signal /\ stopping' = stopping
  BY DEF Offer, processVars, layerVars
<1>3. /\ ~ended /\ ~started /\ ~gameStarted
      /\ publisher = "unconfigured" /\ pipeline = "idle"
      /\ \A p \in Proc : os[p] = "none"
      /\ Owed("close") = {} /\ Owed("sink") = {}
  BY <1>2 DEF FreshInv
<1>4. Proc = {"game", "encoder", "capture"} /\ Caller = {"offer", "close", "sink"}
  BY NativeAssumption
<1>5. ASSUME Sent
      PROVE  /\ v \in Forward /\ "answer" \in StepsIn(v) /\ "publish" \in StepsIn(v)
             /\ HasGame => "start game" \in StepsIn(v)
             /\ StepsIn(v) \subseteq ForwardSteps /\ v \in Seq(StepName)
  <2>1. v \in {Launching, Preparing} /\ (HasGame => v = Launching)
    BY <1>5, AcceptOfferIs
  <2>2. v \in Forward /\ v \in Seq(StepName)
    BY <2>1, RestsBegin DEF Forward
  <2>3. "answer" \in StepsIn(v) /\ "publish" \in StepsIn(v)
    BY <2>1, RestsAre
  <2>4. HasGame => "start game" \in StepsIn(v)
    BY <2>1, RestsAre
  <2>5. StepsIn(v) \subseteq ForwardSteps
    BY <2>2, RestOrCatch
  <2> QED BY <2>2, <2>3, <2>4, <2>5
<1>22. ASSUME Thrown
       PROVE  StepsIn(v) = {"give up"} /\ v \in Seq(StepName)
  <2>1. "give up" \in StepName
    BY DEF StepName, CatchSteps
  <2>2. v = <<"give up">>
    BY <1>22
  <2>3. StepsIn(v) = {"give up"}
    BY <2>2, InOne
  <2>4. v \in Seq(StepName)
    BY <2>1, <2>2, SeqOne
  <2> QED BY <2>3, <2>4
<1>23. Sent \/ Thrown
  BY <1>1
<1>24. v \in Seq(StepName)
  BY <1>5, <1>22, <1>23
<1> HIDE DEF Sent, Thrown
<1>6. /\ todo' \in [Caller -> Seq(StepName)] /\ todo'["offer"] = v
      /\ Owed("offer")' = StepsIn(v)
      /\ \A s \in Caller : s # "offer" => todo'[s] = todo[s]
  BY <1>1, <1>4, <1>24, InsteadOwed
<1>7. Owed("close")' = {} /\ Owed("sink")' = {}
  BY <1>3, <1>4, <1>6 DEF Owed
<1>8. todo'["close"] = <<>> /\ todo'["sink"] = <<>>
  <2>1. ASSUME NEW s \in Seq(StepName), StepsIn(s) = {} PROVE s = <<>>
    BY <2>1, InTail
  <2> QED BY <1>3, <1>4, <1>6, <2>1 DEF NativeTypes, Owed
<1>9. ~gameStarted' /\ ~ended' /\ ~started'
  BY <1>2, <1>3
<1>10. \A p \in Proc : ~Unsafe(p)'
  BY <1>2, <1>3 DEF Unsafe
<1>11. StepsIn(v) \cap {"stop pipeline", "pipeline stopped", "publisher stopped",
                        "stop game", "await game", "game stopped"} = {}
  <2>1. CASE Sent
    BY <1>5, <2>1, RestOrCatch
  <2>2. CASE Thrown
    BY <1>22, <2>2
  <2> QED BY <1>23, <2>1, <2>2
<1>12. NativeTypes'
  <2>1. offered' \in BOOLEAN
    BY <1>23 DEF NativeTypes, Sent, Thrown
  <2> QED BY <1>2, <1>6, <2>1 DEF NativeTypes
<1>13. ThreadsInv'
  <2>1. todo'["offer"] \in Forward \/ Owed("offer")' \subseteq CatchSteps
    <3>1. "give up" \in CatchSteps
      BY DEF CatchSteps
    <3>2. v \in Forward \/ StepsIn(v) \subseteq CatchSteps
      BY <1>5, <1>22, <1>23, <3>1
    <3> QED BY <1>6, <3>2
  <2>2. \A s \in Caller : todo'[s] # <<>> => StepsIn(Tail(todo'[s])) \cap AwaitSteps = {}
    <3>1. StepsIn(v) \cap AwaitSteps = {}
      BY <1>5, <1>22, <1>23 DEF AwaitSteps, ForwardSteps
    <3>2. v # <<>> => StepsIn(Tail(v)) \subseteq StepsIn(v)
      BY <1>24, InTail
    <3> QED BY <1>4, <1>6, <1>8, <3>1, <3>2
  <2> QED BY <1>7, <1>8, <2>1, <2>2 DEF ThreadsInv
<1>14. TurnInv'
  BY <1>8 DEF TurnInv, Waiting
<1>15. OfferInv'
  <2>1. \A t \in Caller :
          /\ Owed(t)' \cap {"stop pipeline", "pipeline stopped", "publisher stopped"} = {}
          /\ Owed(t)' \cap {"stop game", "await game", "game stopped"} = {}
    BY <1>4, <1>6, <1>7, <1>11, ZenonT(60)
  <2>2. CASE Sent
    <3>1. offered' /\ "publish" \in Owed("offer")' /\ (HasGame => "start game" \in Owed("offer")')
      BY <1>5, <1>6, <2>2 DEF Sent
    <3>2. os'["encoder"] = "none" /\ os'["capture"] = "none"
      BY <1>2, <1>3, <1>4
    <3>3. publisher' = "unconfigured" /\ pipeline' = "idle"
      BY <1>2, <1>3
    <3> QED BY <1>2, <1>7, <1>9, <2>1, <3>1, <3>2, <3>3 DEF OfferInv
  <2>3. CASE Thrown
    <3>2. Owed("offer")' = {"give up"}
      BY <1>6, <1>22, <2>3
    <3>1. /\ ~Goes' /\ "publish" \notin Owed("offer")' /\ "start game" \notin Owed("offer")'
          /\ "start publisher" \notin Owed("offer")'
      BY <3>2 DEF Goes
    <3> QED BY <1>7, <3>1 DEF OfferInv
  <2> QED BY <1>23, <2>2, <2>3
<1>16. FreshInv'
  <2>1. ~offered' => Owed("offer")' = {"give up"}
    BY <1>6, <1>22, <1>23 DEF Sent
  <2>2. \A p \in Proc : os'[p] = "none"
    BY <1>2, <1>3
  <2>3. publisher' = "unconfigured" /\ pipeline' = "idle"
    BY <1>2, <1>3
  <2> QED BY <1>7, <1>9, <2>1, <2>2, <2>3 DEF FreshInv
<1>17. ReturnedInv'
  BY <1>10 DEF ReturnedInv
<1>18. PublisherInv'
  BY <1>2, <1>3 DEF PublisherInv, PublisherIdle
<1>19. \A t \in Caller : Owed(t)' \cap {"pipeline stopped", "publisher stopped"} = {}
  BY <1>4, <1>6, <1>7, <1>11
<1>20. GameInv'
  BY <1>4, <1>9, <1>10 DEF GameInv
<1>21. PipelineInv'
  <2>1. ~Busy'
    BY <1>2, <1>3 DEF Busy
  <2>2. ~Owes({"pipeline stopped"})' /\ ~Owes({"publisher stopped"})'
    BY <1>19 DEF Owes
  <2> QED BY <1>4, <1>10, <2>1, <2>2 DEF PipelineInv
<1> QED
  BY <1>12, <1>13, <1>14, <1>15, <1>16, <1>17, <1>18, <1>20, <1>21 DEF NativeRest
-----------------------------------------------------------------------------
(***************************************************************************)
(* The invariant, and what follows from it.                                *)
(***************************************************************************)
LEMMA NativeInit == HostInit => NativeInv
<1> SUFFICES ASSUME HostInit PROVE NativeInv
  OBVIOUS
<1>1. /\ runtime = "listening" /\ ~offered /\ ~ended /\ ~started /\ ~gameStarted
      /\ offered = FALSE /\ ended = FALSE /\ started = FALSE /\ gameStarted = FALSE
      /\ publisher = "unconfigured" /\ pipeline = "idle" /\ answer = "none"
      /\ todo = [t \in Caller |-> <<>>]
  BY DEF HostInit
<1>2. Proc = {"game", "encoder", "capture"} /\ Caller = {"offer", "close", "sink"}
  BY NativeAssumption
<1>3. ProcessInv /\ \A p \in Proc : os[p] = "none"
  BY ProcessInitInv DEF HostInit, ProcessInit
<1>4. \A t \in Caller : todo[t] = <<>> /\ Owed(t) = {}
  BY <1>1, InNone DEF Owed
<1>5. \A S : ~Owes(S)
  BY <1>4 DEF Owes
<1>6. Owed("offer") = {} /\ ~Goes /\ Owed("close") = {} /\ Owed("sink") = {}
  BY <1>2, <1>4 DEF Goes
<1>7. \A p \in Proc : ~Unsafe(p)
  BY <1>3 DEF Unsafe
<1>8. NativeTypes
  <2>1. <<>> \in Seq(StepName)
    BY EmptySeq
  <2> QED BY <1>1, <2>1 DEF NativeTypes
<1>9. ThreadsInv /\ TurnInv
  <2>1. todo["close"] = <<>>
    BY <1>2, <1>4
  <2> QED BY <1>4, <1>6, <2>1 DEF ThreadsInv, TurnInv
<1>10. OfferInv
  BY <1>6 DEF OfferInv
<1>11. FreshInv
  BY <1>1, <1>3, <1>6 DEF FreshInv
<1>12. ReturnedInv
  BY <1>7 DEF ReturnedInv
<1>13. PublisherInv
  BY <1>1 DEF PublisherInv, PublisherIdle
<1>14. GameInv
  BY <1>1, <1>2, <1>7, <1>5 DEF GameInv
<1>15. PipelineInv
  <2>1. ~Busy
    BY <1>1 DEF Busy
  <2> QED BY <1>2, <1>5, <1>6, <1>7, <2>1 DEF PipelineInv
<1> QED
  BY <1>3, <1>8, <1>9, <1>10, <1>11, <1>12, <1>13, <1>14, <1>15 DEF NativeInv

\* A step of the host is a step of its processes, or leaves them alone.
LEMMA HostProcessStep ==
  ASSUME HostNext \/ UNCHANGED hostVars
  PROVE  [ProcessNext]_processVars
<1>1. CASE UNCHANGED hostVars
  BY <1>1 DEF hostVars
<1>2. ASSUME NEW p \in Proc, StartProcess(p) \/ Started(p)
      PROVE  [ProcessNext]_processVars
  BY <1>2 DEF StartProcess, Started, ProcessNext
<1>3. CASE \/ StartPublisher \/ Publish \/ NegotiateEnded \/ Negotiate \/ Answer \/ GiveUp
           \/ Offer \/ OfferRejected \/ PeerSettles \/ Close \/ MessageFails \/ SinkFails
  BY <1>3
  DEF StartPublisher, Publish, NegotiateEnded, Negotiate, Answer, GiveUp, Offer, OfferRejected,
      PeerSettles, Close, MessageFails, SinkFails
<1>4. ASSUME NEW t \in Caller,
             EndSession(t) \/ StopPublisher(t) \/ StopPipeline(t) \/ StopGame(t) \/ Record(t)
      PROVE  [ProcessNext]_processVars
  BY <1>4 DEF EndSession, StopPublisher, StopPipeline, StopGame, Record
<1>5. ASSUME NEW t \in Caller, NEW p \in Proc, StopProcess(t, p) \/ Stopped(t, p)
      PROVE  [ProcessNext]_processVars
  BY <1>5 DEF StopProcess, Stopped, ProcessNext
<1>6. CASE ProcessEvent
  BY <1>6 DEF ProcessEvent, ProcessNext, ChildStep
<1>7. ASSUME NEW p \in Proc, ProgramEnds(p)
      PROVE  [ProcessNext]_processVars
  BY <1>7 DEF ProgramEnds, ProcessNext, ChildStep
<1> QED
  BY <1>1, <1>2, <1>3, <1>4, <1>5, <1>6, <1>7 DEF HostNext, Step

LEMMA NativeNext == NativeInv /\ [HostNext]_hostVars => NativeInv'
<1> SUFFICES ASSUME NativeInv, HostNext \/ UNCHANGED hostVars PROVE NativeInv'
  OBVIOUS
<1>1. ProcessInv'
  BY HostProcessStep, ProcessNextInv DEF NativeInv
<1>2. ASSUME Step PROVE NativeRest'
  <2>1. ASSUME NEW p \in Proc, StartProcess(p) \/ Started(p) PROVE NativeRest'
    BY <2>1, StartProcessKeeps, StartedKeeps
  <2>2. CASE StartPublisher \/ Publish \/ NegotiateEnded \/ Negotiate \/ Answer \/ GiveUp
    <3>1. CASE StartPublisher \/ Publish
      BY <3>1, StartPublisherKeeps, PublishKeeps
    <3>2. CASE NegotiateEnded \/ Negotiate
      BY <3>2, NegotiateKeeps
    <3>3. CASE Answer \/ GiveUp
      BY <3>3, AnswerKeeps, GiveUpKeeps
    <3> QED BY <2>2, <3>1, <3>2, <3>3
  <2>3. ASSUME NEW t \in Caller,
               EndSession(t) \/ StopPublisher(t) \/ StopPipeline(t) \/ StopGame(t) \/ Record(t)
        PROVE  NativeRest'
    BY <2>3, EndSessionKeeps, StopPublisherKeeps, StopPipelineKeeps, StopGameKeeps, RecordKeeps
  <2>4. ASSUME NEW t \in Caller, NEW p \in Proc, StopProcess(t, p) \/ Stopped(t, p)
        PROVE  NativeRest'
    BY <2>4, StopProcessKeeps, StoppedKeeps
  <2>5. CASE \E p \in Proc : StartProcess(p) \/ Started(p)
    BY <2>1, <2>5
  <2>6. CASE \E t \in Caller : EndSession(t) \/ StopPublisher(t) \/ StopPipeline(t) \/ StopGame(t)
                               \/ Record(t) \/ \E p \in Proc : StopProcess(t, p) \/ Stopped(t, p)
    BY <2>3, <2>4, <2>6
  <2> QED BY <1>2, <2>2, <2>5, <2>6 DEF Step
<1>3. CASE ~Due /\ (Offer \/ OfferRejected \/ PeerSettles \/ Close \/ MessageFails \/ SinkFails)
  <2>1. NativeRest'
    BY <1>3, OfferKeeps, StandsStillKeeps, PeerSettlesKeeps, CloseKeeps, MessageFailsKeeps,
       SinkFailsKeeps
  <2> QED BY <1>1, <2>1 DEF NativeInv, NativeRest
<1>4. CASE ~Due /\ ProcessEvent
  BY <1>1, <1>4, ProcessEventKeeps DEF NativeInv, NativeRest
<1>5. ASSUME NEW p \in Proc, ProgramEnds(p) PROVE NativeInv'
  BY <1>1, <1>5, ProgramEndsKeeps DEF NativeInv, NativeRest
<1>6. CASE UNCHANGED hostVars
  BY <1>1, <1>6, StandsStillKeeps DEF NativeInv, NativeRest
<1>7. Step => NativeInv'
  BY <1>1, <1>2 DEF NativeInv, NativeRest
<1> QED BY <1>3, <1>4, <1>5, <1>6, <1>7 DEF HostNext

\* Whatever the three threads do to one another, each thing that was started is owed a stop.
THEOREM NativeInvariance == HostSpec => []NativeInv
BY NativeInit, NativeNext, PTL DEF HostSpec

\* The three processes of a session live as host/process.mjs lets a process live.
THEOREM NativeUsesProcess == HostSpec => ProcessSpec
<1>1. HostInit => ProcessInit
  BY DEF HostInit
<1>2. [HostNext]_hostVars => [ProcessNext]_processVars
  BY HostProcessStep
<1> QED BY <1>1, <1>2, PTL DEF HostSpec, ProcessSpec

\* Whatever close(), a failing offer and a failing sink did to one another: when the
\* session is closed and nobody has anything left to do, every child has been killed or has
\* ended, and every layer says that it is stopped.
THEOREM NativeLeavesNothing == HostSpec => []NothingLeftRunning
<1>1. NativeInv => NothingLeftRunning
  <2> SUFFICES ASSUME NativeInv, runtime = "closed", Settled
               PROVE  /\ \A p \in Proc : ~Unsafe(p)
                      /\ PublisherIdle /\ ~gameStarted
    BY DEF NothingLeftRunning, Unsafe, PublisherIdle
  <2> USE DEF NativeInv
  <2>1. \A t \in Caller : Owed(t) = {}
    BY InNone DEF Settled, Owed
  <2>2. \A S : ~Owes(S)
    BY <2>1 DEF Owes
  <2>3. Owed("offer") = {} /\ ~Goes /\ ~Alive
    BY <2>1, NativeAssumption DEF Goes, Alive
  <2>4. PublisherIdle /\ ~gameStarted
    BY <2>2, <2>3 DEF PublisherInv, GameInv
  <2>5. ~Unsafe("game")
    BY <2>2, <2>3, <2>4 DEF GameInv
  <2>6. ~Busy
    BY <2>2, <2>4 DEF PipelineInv
  <2>7. ~Unsafe("encoder") /\ ~Unsafe("capture")
    BY <2>2, <2>3, <2>6 DEF PipelineInv
  <2> QED BY <2>4, <2>5, <2>7, NativeAssumption
<1> QED BY <1>1, NativeInvariance, PTL

\* The peer is told `accepted' only by a session that has started what it shares and was not
\* closed meanwhile.
THEOREM NativeAcceptsStarted == HostSpec => AcceptedIsStarted
<1> DEFINE Accepted ==
      answer # "accepted" /\ answer' = "accepted" =>
        /\ runtime = "listening" /\ ~ended /\ started
        /\ HasGame => gameStarted
<1>1. ASSUME NativeInv, HostNext PROVE Accepted
  <2> USE DEF NativeInv
  <2>1. ASSUME answer # "accepted", answer' = "accepted" PROVE Answer /\ ~BridgeClosed
    <3>1. CASE Answer
      BY <2>1, <3>1 DEF Answer
    <3>2. CASE ~Answer
      <4>1. ASSUME NEW p \in Proc, StartProcess(p) \/ Started(p) \/ ProgramEnds(p)
            PROVE  answer' = answer
        BY <4>1 DEF StartProcess, Started, ProgramEnds, nativeVars, flowVars
      <4>2. CASE \/ StartPublisher \/ Publish \/ NegotiateEnded \/ Negotiate \/ GiveUp
                 \/ Offer \/ PeerSettles \/ Close \/ MessageFails \/ SinkFails
        BY <2>1, <4>2
        DEF StartPublisher, Publish, NegotiateEnded, Negotiate, GiveUp, Offer, PeerSettles,
            Close, MessageFails, SinkFails, flowVars
      <4>3. CASE OfferRejected
        BY <2>1, <4>3 DEF OfferRejected
      <4>4. ASSUME NEW t \in Caller,
                   \/ EndSession(t) \/ StopPublisher(t) \/ StopPipeline(t) \/ StopGame(t)
                   \/ Record(t)
            PROVE  answer' = answer
        BY <4>4 DEF EndSession, StopPublisher, StopPipeline, StopGame, Record, flowVars
      <4>5. ASSUME NEW t \in Caller, NEW p \in Proc, StopProcess(t, p) \/ Stopped(t, p)
            PROVE  answer' = answer
        BY <4>5 DEF StopProcess, Stopped, flowVars
      <4>6. CASE ProcessEvent
        BY <2>1, <4>6 DEF ProcessEvent, nativeVars, flowVars
      <4> QED
        BY <1>1, <2>1, <3>2, <4>1, <4>2, <4>3, <4>4, <4>5, <4>6 DEF HostNext, Step
    <3> QED BY <3>1, <3>2
  <2>2. ASSUME Answer, ~BridgeClosed
        PROVE  runtime = "listening" /\ ~ended /\ started /\ (HasGame => gameStarted)
    <3>1. todo["offer"] = Answering
      BY <1>1, <2>2, AtForward DEF Answer
    <3>2. Owed("offer") = {"answer"}
      BY <3>1, RestsAre DEF Owed
    <3>3. Goes /\ "publish" \notin Owed("offer") /\ "start game" \notin Owed("offer")
      BY <3>2 DEF Goes
    <3> QED BY <1>1, <2>2, <3>3 DEF OfferInv, BridgeClosed
  <2> QED BY <2>1, <2>2
<1>2. NativeInv /\ [HostNext]_hostVars => [Accepted]_hostVars
  BY <1>1
<1> QED BY <1>2, NativeInvariance, PTL DEF HostSpec, AcceptedIsStarted
=============================================================================
