-------------------------- MODULE BrowserPartsProofs --------------------------
(***************************************************************************)
(* Proofs about what pages do for their user with displays, files and      *)
(* adapters, and what the desktop keeps of the services it shows: the      *)
(* parts of MCBrowserParts one by one, and then the composition, for every *)
(* value of the bounds and any files, manifests, profiles and sites.       *)
(***************************************************************************)
EXTENDS MCBrowserParts, WellFoundedInduction, TLAPS

(***************************************************************************)
(* The page that hosts.                                                    *)
(***************************************************************************)
PublisherRecord ==
  [at : {"none", "display", "mic", "done"}, stream : BOOLEAN, display : BOOLEAN,
   mic : {"off", "joined", "stray"}, peer : {"open", "closed"}, paused : BOOLEAN,
   gated : BOOLEAN, cut : BOOLEAN]

RuntimeRecord ==
  [state : {"none", "idle", "listening", "connected", "error", "closed"},
   of : Publisher \cup {None},
   socket : {"none", "connecting", "open", "closing", "closed"},
   active : BOOLEAN, offers : 0..MaxOffers, bound : BOOLEAN, replaced : BOOLEAN]

\* What a publisher q captures hangs on its stream, unless close() cut into its capture; one that
\* is not the page's was closed.
Kempt(q, pages) ==
  /\ q.at \in {"none", "display"} =>
       ~q.stream /\ ~q.display /\ q.mic = "off" /\ ~q.paused /\ ~q.gated
  /\ q.at = "mic" => (q.stream \/ q.cut) /\ q.mic = "off"
  /\ ~q.cut => (q.display => q.stream) /\ (q.mic = "joined" => q.stream) /\ q.mic # "stray"
  /\ ~pages /\ q.at \in {"display", "mic"} => q.cut
  /\ ~pages /\ q.at = "done" /\ ~q.cut => ~q.display /\ q.mic = "off"
  /\ q.stream => q.gated = q.paused

\* A runtime that is closed has no connection, one that is not the page's was replaced.
Settles(q, pages) ==
  /\ q.state = "closed" => q.socket \notin {"connecting", "open"}
  /\ q.state = "connected" => q.socket = "open" /\ q.active
  /\ ~pages /\ q.socket \in {"connecting", "open"} => q.replaced

PublishersInv(ps, current) ==
  /\ ps \in [Publisher -> PublisherRecord] /\ current \in Publisher \cup {None}
  /\ \A p \in Publisher : Kempt(ps[p], p = current)

RuntimesInv(rs, current) ==
  /\ rs \in [Runtime -> RuntimeRecord] /\ current \in Runtime \cup {None}
  /\ \A r \in Runtime : Settles(rs[r], r = current)

LEMMA ClosedIsKempt ==
  ASSUME NEW q \in PublisherRecord, NEW pages \in BOOLEAN, Kempt(q, pages), NEW any \in BOOLEAN,
         q.at # "none" \/ pages = any
  PROVE  Closed(q) \in PublisherRecord /\ Kempt(Closed(q), any)
BY ZenonT(60) DEF Closed, Kempt, PublisherRecord

LEMMA CloseOfKeeps ==
  ASSUME NEW ps, NEW current, PublishersInv(ps, current), NEW p \in Publisher \cup {None}
  PROVE  PublishersInv(CloseOf(p, ps), current)
<1>1. CASE p = None
  BY <1>1 DEF CloseOf
<1>2. CASE p # None
  <2>1. p \in Publisher /\ CloseOf(p, ps) = [ps EXCEPT ![p] = Closed(ps[p])]
    BY <1>2 DEF CloseOf
  <2>2. ps[p] \in PublisherRecord /\ Kempt(ps[p], p = current)
    BY <2>1 DEF PublishersInv
  <2>3. Closed(ps[p]) \in PublisherRecord /\ Kempt(Closed(ps[p]), p = current)
    BY <2>2, ClosedIsKempt
  <2> QED BY <2>1, <2>3 DEF PublishersInv
<1> QED BY <1>1, <1>2

\* The page forgets its publisher as it closes it.
LEMMA ForgottenIsClosed ==
  ASSUME NEW ps, NEW current, PublishersInv(ps, current), NEW other \in Publisher \cup {None},
         current # None => ps[current].at # "none",
         other # None /\ other # current => ps[other].at = "none"
  PROVE  PublishersInv(CloseOf(current, ps), other)
<1> DEFINE qs == CloseOf(current, ps)
<1>1. PublishersInv(qs, current)
  BY CloseOfKeeps DEF PublishersInv
<1>2. ASSUME NEW p \in Publisher PROVE Kempt(qs[p], p = other)
  <2>1. CASE p = current
    <3>1. qs[p] = Closed(ps[p])
      BY <2>1 DEF CloseOf, None, Publisher, PublishersInv
    <3>2. ps[p] \in PublisherRecord /\ Kempt(ps[p], p = current)
      BY DEF PublishersInv
    <3>3. ps[p].at # "none"
      BY <2>1 DEF Publisher, None
    <3> QED BY <3>1, <3>2, <3>3, ClosedIsKempt
  <2>2. CASE p # current
    <3>1. Kempt(qs[p], FALSE) /\ qs[p] \in PublisherRecord /\ qs[p] = ps[p]
      BY <1>1, <2>2 DEF PublishersInv, CloseOf
    <3>2. p = other => qs[p].at = "none"
      BY <2>2, <3>1 DEF Publisher, None
    <3> QED BY <3>1, <3>2 DEF Kempt
  <2> QED BY <2>1, <2>2
<1> QED BY <1>1, <1>2 DEF PublishersInv

\* The publisher of the page has begun to capture.
Began(ps, current) == current # None => ps[current].at # "none"

\* A runtime publishes what has been captured.
Captured == \A r \in Runtime : runs[r].of # None => pubs[runs[r].of].at \in {"mic", "done"}

LEMMA CloseOfAt ==
  ASSUME NEW ps, NEW current, PublishersInv(ps, current), NEW p \in Publisher \cup {None}
  PROVE  \A x \in Publisher : CloseOf(p, ps)[x].at = ps[x].at
<1>1. CASE p = None
  BY <1>1 DEF CloseOf
<1>2. CASE p # None
  <2>1. p \in Publisher /\ CloseOf(p, ps) = [ps EXCEPT ![p] = Closed(ps[p])]
    BY <1>2 DEF CloseOf
  <2>2. ps[p] \in PublisherRecord
    BY <2>1 DEF PublishersInv
  <2>3. Closed(ps[p]).at = ps[p].at
    BY <2>2 DEF Closed, PublisherRecord
  <2> QED BY <2>1, <2>3 DEF PublishersInv
<1> QED BY <1>1, <1>2

LEMMA OfIsPublisher ==
  ASSUME NEW rs, NEW current, RuntimesInv(rs, current), NEW r \in Runtime
  PROVE  rs[r].of \in Publisher \cup {None}
BY DEF RuntimesInv, RuntimeRecord

HostingInv ==
  /\ PublishersInv(pubs, publisher) /\ Began(pubs, publisher)
  /\ RuntimesInv(runs, runtime) /\ Captured
  /\ startable \in BOOLEAN /\ stoppable \in BOOLEAN

LEMMA HostingInit == HostInit => HostingInv
<1> SUFFICES ASSUME HostInit PROVE HostingInv
  OBVIOUS
<1>1. NoPublisher \in PublisherRecord /\ Kempt(NoPublisher, FALSE)
  BY DEF NoPublisher, PublisherRecord, Kempt
<1>2. NoRuntime \in RuntimeRecord /\ Settles(NoRuntime, FALSE)
  BY BrowserHostAssumption DEF NoRuntime, RuntimeRecord, Settles, None
<1>3. \A p \in Publisher : (p = publisher) = FALSE
  BY DEF HostInit, Publisher, None
<1>4. \A r \in Runtime : (r = runtime) = FALSE
  BY DEF HostInit, Runtime, None
<1>5. PublishersInv(pubs, publisher)
  BY <1>1, <1>3 DEF HostInit, PublishersInv
<1>6. RuntimesInv(runs, runtime)
  BY <1>2, <1>4 DEF HostInit, RuntimesInv
<1>7. Captured /\ Began(pubs, publisher)
  BY DEF HostInit, Captured, Began, NoRuntime
<1>8. startable \in BOOLEAN /\ stoppable \in BOOLEAN
  BY DEF HostInit
<1> QED BY <1>5, <1>6, <1>7, <1>8 DEF HostingInv

\* The catch of the capture button, after a publisher p has given up what it awaited.
LEMMA RejectedKeeps ==
  ASSUME HostingInv, NEW p \in Publisher, NEW q \in PublisherRecord, q.at = "done",
         Kempt(q, p = publisher), CaptureRejected([pubs EXCEPT ![p] = q])
  PROVE  HostingInv'
<1> DEFINE ps == [pubs EXCEPT ![p] = q]
<1>1. PublishersInv(ps, publisher) /\ Began(ps, publisher)
  BY DEF HostingInv, PublishersInv, Began
<1>2. PublishersInv(CloseOf(publisher, ps), None)
  BY <1>1, ForgottenIsClosed DEF Began
<1>3. \A x \in Publisher : CloseOf(publisher, ps)[x].at = ps[x].at
  BY <1>1, CloseOfAt DEF PublishersInv
<1>4. pubs' = CloseOf(publisher, ps) /\ publisher' = None
      /\ UNCHANGED <<runtime, runs, startable, stoppable>>
  BY DEF CaptureRejected, buttons
<1>5. Captured'
  <2> SUFFICES ASSUME NEW r \in Runtime, runs[r].of # None
               PROVE  pubs'[runs[r].of].at \in {"mic", "done"}
    BY <1>4 DEF Captured
  <2>1. runs[r].of \in Publisher /\ pubs[runs[r].of].at \in {"mic", "done"}
    BY OfIsPublisher DEF HostingInv, Captured
  <2> QED BY <1>3, <1>4, <2>1 DEF HostingInv, PublishersInv
<1> QED BY <1>2, <1>4, <1>5 DEF HostingInv, Began

\* A publisher becomes q, the page's remains.
LEMMA PublisherKeeps ==
  ASSUME HostingInv, NEW p \in Publisher, NEW q \in PublisherRecord,
         q.at \in {"mic", "done"} \/ q.at = pubs[p].at,
         Kempt(q, p = publisher), pubs' = [pubs EXCEPT ![p] = q],
         UNCHANGED <<publisher, runtime, runs>>, startable' \in BOOLEAN, stoppable' \in BOOLEAN
  PROVE  HostingInv'
<1>1. PublishersInv(pubs', publisher)
  BY DEF HostingInv, PublishersInv
<1>2. Began(pubs', publisher)
  BY DEF HostingInv, PublishersInv, Began
<1>3. Captured'
  <2> SUFFICES ASSUME NEW r \in Runtime, runs[r].of # None
               PROVE  pubs'[runs[r].of].at \in {"mic", "done"}
    BY DEF Captured
  <2>1. runs[r].of \in Publisher /\ pubs[runs[r].of].at \in {"mic", "done"}
    BY OfIsPublisher DEF HostingInv, Captured
  <2> QED BY <2>1 DEF HostingInv, PublishersInv
<1> QED BY <1>1, <1>2, <1>3 DEF HostingInv

LEMMA TracksAddedKeeps ==
  ASSUME HostingInv, NEW p \in Publisher, NEW q \in PublisherRecord, q.at \in {"display", "mic"},
         q.stream, q.gated = q.paused, ~q.cut => q.mic # "stray", p # publisher => q.cut,
         TracksAdded(p, q)
  PROVE  HostingInv'
<1>1. CASE q.peer = "closed"
  <2> DEFINE d == [q EXCEPT !.at = "done"]
  <2>1. d \in PublisherRecord /\ d.at = "done" /\ Kempt(d, p = publisher)
    BY DEF PublisherRecord, Kempt
  <2> QED BY <1>1, <2>1, RejectedKeeps DEF TracksAdded
<1>2. CASE q.peer # "closed"
  <2> DEFINE d == [q EXCEPT !.at = "done", !.gated = q.paused]
  <2>1. d \in PublisherRecord /\ d.at = "done" /\ Kempt(d, p = publisher)
    BY DEF PublisherRecord, Kempt
  <2>2. startable' \in BOOLEAN /\ stoppable' \in BOOLEAN
    BY <1>2 DEF TracksAdded
  <2> QED BY <1>2, <2>1, <2>2, PublisherKeeps DEF TracksAdded
<1> QED BY <1>1, <1>2

LEMMA PublisherSteps ==
  ASSUME HostingInv, NEW p \in Publisher,
         \/ \E microphone \in BOOLEAN : DisplayGranted(p, microphone)
         \/ DisplayDenied(p) \/ MicrophoneGranted(p) \/ MicrophoneDenied(p) \/ SharingEnds(p)
  PROVE  HostingInv'
<1> DEFINE o == pubs[p]
<1>0. o \in PublisherRecord /\ Kempt(o, p = publisher)
  BY DEF HostingInv, PublishersInv
<1>1. ASSUME NEW microphone \in BOOLEAN, DisplayGranted(p, microphone) PROVE HostingInv'
  <2> DEFINE q == [o EXCEPT !.stream = TRUE, !.display = TRUE]
  <2>1. q \in PublisherRecord /\ q.at = "display" /\ q.stream /\ q.gated = q.paused
        /\ q.mic = "off" /\ (p # publisher => q.cut)
    BY <1>0, <1>1 DEF DisplayGranted, PublisherRecord, Kempt
  <2>2. CASE microphone
    <3> DEFINE m == [q EXCEPT !.at = "mic"]
    <3>1. m \in PublisherRecord /\ m.at = "mic" /\ Kempt(m, p = publisher)
      BY <2>1 DEF PublisherRecord, Kempt
    <3>2. /\ pubs' = [pubs EXCEPT ![p] = m]
          /\ UNCHANGED <<publisher, runtime, runs, startable, stoppable>>
      BY <1>1, <2>2 DEF DisplayGranted, buttons
    <3> QED BY <3>1, <3>2, PublisherKeeps DEF HostingInv
  <2>3. CASE ~microphone
    BY <1>1, <2>1, <2>3, TracksAddedKeeps DEF DisplayGranted
  <2> QED BY <2>2, <2>3
<1>2. CASE DisplayDenied(p)
  <2> DEFINE q == [o EXCEPT !.at = "done"]
  <2>1. q \in PublisherRecord /\ q.at = "done" /\ Kempt(q, p = publisher)
    BY <1>0, <1>2 DEF DisplayDenied, PublisherRecord, Kempt
  <2>2. CaptureRejected([pubs EXCEPT ![p] = q])
    BY <1>2 DEF DisplayDenied
  <2> QED BY <2>1, <2>2, RejectedKeeps
<1>3. CASE MicrophoneGranted(p)
  <2>1. CASE o.stream
    <3> DEFINE q == [o EXCEPT !.mic = "joined"]
    <3>1. q \in PublisherRecord /\ q.at = "mic" /\ q.stream /\ q.gated = q.paused
          /\ q.mic = "joined" /\ (p # publisher => q.cut)
      BY <1>0, <1>3, <2>1 DEF MicrophoneGranted, PublisherRecord, Kempt
    <3> QED BY <1>3, <2>1, <3>1, TracksAddedKeeps DEF MicrophoneGranted
  <2>2. CASE ~o.stream
    <3> DEFINE q == [o EXCEPT !.mic = "stray", !.at = "done"]
    <3>1. q \in PublisherRecord /\ q.at = "done" /\ Kempt(q, p = publisher)
      BY <1>0, <1>3, <2>2 DEF MicrophoneGranted, PublisherRecord, Kempt
    <3>2. CaptureRejected([pubs EXCEPT ![p] = q])
      BY <1>3, <2>2 DEF MicrophoneGranted, HostingInv, PublishersInv
    <3> QED BY <3>1, <3>2, RejectedKeeps
  <2> QED BY <2>1, <2>2
<1>4. CASE MicrophoneDenied(p)
  <2> DEFINE q == [o EXCEPT !.display = o.display /\ ~o.stream, !.stream = FALSE, !.at = "done"]
  <2>1. q \in PublisherRecord /\ q.at = "done" /\ Kempt(q, p = publisher)
    BY <1>0, <1>4 DEF MicrophoneDenied, PublisherRecord, Kempt
  <2>2. CaptureRejected([pubs EXCEPT ![p] = q])
    BY <1>4 DEF MicrophoneDenied, HostingInv, PublishersInv
  <2> QED BY <2>1, <2>2, RejectedKeeps
<1>5. CASE SharingEnds(p)
  <2> DEFINE q == [o EXCEPT !.display = FALSE]
  <2>1. q \in PublisherRecord /\ q.at = o.at /\ Kempt(q, p = publisher)
    BY <1>0 DEF PublisherRecord, Kempt
  <2>2. pubs' = [pubs EXCEPT ![p] = q] /\ UNCHANGED <<publisher, runtime, runs, startable, stoppable>>
    BY <1>5 DEF SharingEnds, buttons
  <2> QED BY <2>1, <2>2, PublisherKeeps DEF HostingInv
<1> QED BY <1>1, <1>2, <1>3, <1>4, <1>5

LEMMA RuntimeKeeps ==
  ASSUME HostingInv, NEW r \in Runtime, NEW q \in RuntimeRecord, q.of = runs[r].of,
         Settles(q, r = runtime), runs' = [runs EXCEPT ![r] = q],
         UNCHANGED <<publisher, pubs, runtime>>, startable' \in BOOLEAN, stoppable' \in BOOLEAN
  PROVE  HostingInv'
<1>1. RuntimesInv(runs', runtime)
  BY DEF HostingInv, RuntimesInv
<1>2. Captured'
  BY DEF HostingInv, Captured, RuntimesInv
<1> QED BY <1>1, <1>2 DEF HostingInv

LEMMA EndedSettles ==
  ASSUME NEW q \in RuntimeRecord, NEW pages \in BOOLEAN
  PROVE  Ended(q) \in RuntimeRecord /\ Ended(q).of = q.of /\ Settles(Ended(q), pages)
BY DEF Ended, RuntimeRecord, Settles

\* A runtime is closed; the page's may be forgotten with that.
LEMMA CloseRuntimeKeeps ==
  ASSUME HostingInv, NEW rs, RuntimesInv(rs, runtime), \A x \in Runtime : rs[x].of = runs[x].of,
         NEW r \in Runtime \cup {None}, CloseRuntime(r, rs),
         runtime' = runtime \/ (runtime' = None /\ r = runtime), publisher' = publisher,
         startable' \in BOOLEAN, stoppable' \in BOOLEAN
  PROVE  HostingInv'
<1>1. \A x \in Runtime : rs[x] \in RuntimeRecord /\ Settles(rs[x], x = runtime)
  BY DEF RuntimesInv
<1>2. CASE r = None \/ rs[r].state = "closed"
  <2>1. runs' = rs /\ pubs' = pubs
    BY <1>2 DEF CloseRuntime
  <2>2. \A x \in Runtime : Settles(rs[x], x = runtime')
    BY <1>1, <1>2 DEF Settles, None, Runtime
  <2>3. RuntimesInv(runs', runtime')
    BY <2>1, <2>2 DEF RuntimesInv
  <2>4. Captured'
    BY <2>1 DEF Captured, HostingInv
  <2> QED BY <2>1, <2>3, <2>4 DEF HostingInv
<1>3. CASE r # None /\ rs[r].state # "closed"
  <2>1. /\ r \in Runtime /\ runs' = [rs EXCEPT ![r] = Ended(rs[r])]
        /\ pubs' = CloseOf(rs[r].of, pubs)
    BY <1>3 DEF CloseRuntime
  <2>2. rs[r].of \in Publisher \cup {None}
    BY <2>1, OfIsPublisher
  <2>3. /\ PublishersInv(pubs', publisher) /\ \A x \in Publisher : pubs'[x].at = pubs[x].at
    BY <2>1, <2>2, CloseOfKeeps, CloseOfAt DEF HostingInv
  <2>4. /\ Ended(rs[r]) \in RuntimeRecord /\ Ended(rs[r]).of = rs[r].of
        /\ Settles(Ended(rs[r]), r = runtime')
    BY <1>1, <2>1, EndedSettles
  <2>5. \A x \in Runtime : x # r => Settles(rs[x], x = runtime')
    BY <1>1 DEF Settles, None, Runtime
  <2>6. RuntimesInv(runs', runtime')
    BY <2>1, <2>4, <2>5 DEF RuntimesInv, HostingInv
  <2>7. Captured'
    <3> SUFFICES ASSUME NEW x \in Runtime, runs'[x].of # None
                 PROVE  pubs'[runs'[x].of].at \in {"mic", "done"}
      BY DEF Captured
    <3>1. runs'[x].of = runs[x].of
      BY <2>1, <2>4 DEF RuntimesInv
    <3>2. runs[x].of \in Publisher /\ pubs[runs[x].of].at \in {"mic", "done"}
      BY <3>1, OfIsPublisher DEF HostingInv, Captured
    <3> QED BY <2>3, <3>1, <3>2
  <2>8. Began(pubs', publisher)
    BY <2>3 DEF HostingInv, Began, PublishersInv
  <2> QED BY <2>3, <2>6, <2>7, <2>8 DEF HostingInv
<1> QED BY <1>2, <1>3

LEMMA RuntimeSteps ==
  ASSUME HostingInv, NEW r \in Runtime,
         \/ SocketOpens(r) \/ SocketFails(r) \/ SocketCloses(r) \/ Offer(r) \/ Accepted(r)
         \/ OfferFails(r) \/ SessionClose(r) \/ \E pause \in BOOLEAN : Control(r, pause)
  PROVE  HostingInv'
<1> DEFINE o == runs[r]
<1>0. o \in RuntimeRecord /\ Settles(o, r = runtime) /\ runs \in [Runtime -> RuntimeRecord]
  BY DEF HostingInv, RuntimesInv
<1>1. CASE SocketOpens(r)
  <2> DEFINE q == [o EXCEPT !.socket = "open", !.state = "listening"]
  <2>1. q \in RuntimeRecord /\ q.of = o.of /\ Settles(q, r = runtime)
    BY <1>0, <1>1 DEF SocketOpens, RuntimeRecord, Settles
  <2>2. /\ runs' = [runs EXCEPT ![r] = q] /\ startable' = FALSE
        /\ UNCHANGED <<publisher, pubs, runtime, stoppable>>
    BY <1>0, <1>1 DEF SocketOpens
  <2> QED BY <2>1, <2>2, RuntimeKeeps DEF HostingInv
<1>2. CASE SocketFails(r)
  <2> DEFINE q == [o EXCEPT !.socket = "closed"]
             rs == [runs EXCEPT ![r] = q]
  <2>1. q \in RuntimeRecord /\ q.of = o.of /\ Settles(q, r = runtime)
    BY <1>0, <1>2 DEF SocketFails, RuntimeRecord, Settles
  <2>2. RuntimesInv(rs, runtime) /\ \A x \in Runtime : rs[x].of = runs[x].of
    BY <1>0, <2>1 DEF HostingInv, RuntimesInv
  <2>3. /\ CloseRuntime(runtime, rs) /\ runtime' = None
        /\ UNCHANGED <<publisher, startable, stoppable>>
    BY <1>0, <1>2 DEF SocketFails, buttons
  <2>4. runtime \in Runtime \cup {None}
    BY DEF HostingInv, RuntimesInv
  <2> QED BY <2>2, <2>3, <2>4, CloseRuntimeKeeps DEF HostingInv
<1>3. CASE SocketCloses(r)
  <2> DEFINE q == [o EXCEPT !.socket = "closed", !.state = "closed"]
  <2>1. q \in RuntimeRecord /\ q.of = o.of /\ Settles(q, r = runtime)
    BY <1>0 DEF RuntimeRecord, Settles
  <2>2. runs' = [runs EXCEPT ![r] = q] /\ UNCHANGED <<publisher, pubs, runtime, startable, stoppable>>
    BY <1>0, <1>3 DEF SocketCloses, buttons
  <2> QED BY <2>1, <2>2, RuntimeKeeps DEF HostingInv
<1>4. CASE Offer(r)
  <2>0. UNCHANGED <<publisher, pubs, runtime, startable, stoppable>>
    BY <1>4 DEF Offer, buttons
  <2>1. CASE Stream(r)
    <3> DEFINE q == [o EXCEPT !.offers = o.offers + 1]
    <3>1. o.offers + 1 \in 0..MaxOffers
      BY <1>0, <1>4, <2>1, BrowserHostAssumption DEF Offer, RuntimeRecord
    <3>2. q \in RuntimeRecord /\ q.of = o.of /\ Settles(q, r = runtime)
      BY <1>0, <3>1 DEF RuntimeRecord, Settles
    <3>3. runs' = [runs EXCEPT ![r] = q]
      BY <1>0, <1>4, <2>1 DEF Offer
    <3> QED BY <2>0, <3>2, <3>3, RuntimeKeeps DEF HostingInv
  <2>2. CASE ~Stream(r)
    <3> DEFINE q == [o EXCEPT !.state = "error"]
    <3>1. q \in RuntimeRecord /\ q.of = o.of /\ Settles(q, r = runtime)
      BY <1>0 DEF RuntimeRecord, Settles
    <3>2. runs' = [runs EXCEPT ![r] = q]
      BY <1>0, <1>4, <2>2 DEF Offer
    <3> QED BY <2>0, <3>1, <3>2, RuntimeKeeps DEF HostingInv
  <2> QED BY <2>1, <2>2
<1>5. ASSUME o.offers > 0 PROVE o.offers - 1 \in 0..MaxOffers
  BY <1>0, <1>5, BrowserHostAssumption DEF RuntimeRecord
<1>6. CASE Accepted(r)
  <2> DEFINE q == [o EXCEPT !.offers = o.offers - 1, !.active = TRUE,
                            !.state = IF o.socket = "open" THEN "connected" ELSE "error"]
  <2>1. q \in RuntimeRecord /\ q.of = o.of /\ Settles(q, r = runtime)
    BY <1>0, <1>5, <1>6 DEF Accepted, RuntimeRecord, Settles
  <2>2. runs' = [runs EXCEPT ![r] = q] /\ UNCHANGED <<publisher, pubs, runtime, startable, stoppable>>
    BY <1>0, <1>6 DEF Accepted, buttons
  <2> QED BY <2>1, <2>2, RuntimeKeeps DEF HostingInv
<1>7. CASE OfferFails(r)
  <2> DEFINE q == [o EXCEPT !.offers = o.offers - 1, !.state = "error"]
  <2>1. q \in RuntimeRecord /\ q.of = o.of /\ Settles(q, r = runtime)
    BY <1>0, <1>5, <1>7 DEF OfferFails, RuntimeRecord, Settles
  <2>2. runs' = [runs EXCEPT ![r] = q] /\ UNCHANGED <<publisher, pubs, runtime, startable, stoppable>>
    BY <1>0, <1>7 DEF OfferFails, buttons
  <2> QED BY <2>1, <2>2, RuntimeKeeps DEF HostingInv
<1>8. CASE SessionClose(r)
  <2>1. CloseRuntime(r, runs) /\ UNCHANGED <<publisher, runtime, startable, stoppable>>
    BY <1>8 DEF SessionClose, buttons
  <2> QED BY <2>1, CloseRuntimeKeeps DEF HostingInv
<1>9. ASSUME NEW pause \in BOOLEAN, Control(r, pause) PROVE HostingInv'
  <2>1. /\ pubs' = [pubs EXCEPT ![o.of] = Paused(pubs[o.of], pause)]
        /\ UNCHANGED <<publisher, runtime, runs, startable, stoppable>>
    BY <1>9 DEF Control, buttons
  <2>2. o.of \in Publisher \cup {None}
    BY <1>0 DEF RuntimeRecord
  <2>3. CASE o.of = None
    <3>1. pubs' = pubs
      BY <2>1, <2>3 DEF HostingInv, PublishersInv, Publisher, None
    <3> QED BY <2>1, <3>1 DEF HostingInv, Captured
  <2>4. CASE o.of # None
    <3> DEFINE p == o.of
               q == Paused(pubs[p], pause)
    <3>1. p \in Publisher /\ pubs[p] \in PublisherRecord /\ Kempt(pubs[p], p = publisher)
          /\ pubs[p].at \in {"mic", "done"}
      BY <2>2, <2>4 DEF HostingInv, PublishersInv, Captured
    <3>2. q \in PublisherRecord /\ q.at = pubs[p].at /\ Kempt(q, p = publisher)
      BY <3>1, ZenonT(60) DEF Paused, PublisherRecord, Kempt
    <3> QED BY <2>1, <3>1, <3>2, PublisherKeeps DEF HostingInv
  <2> QED BY <2>2, <2>3, <2>4
<1> QED BY <1>1, <1>2, <1>3, <1>4, <1>6, <1>7, <1>8, <1>9

LEMMA ClickCaptureKeeps == ASSUME HostingInv, NEW p \in Publisher, ClickCapture(p) PROVE HostingInv'
<1> DEFINE ps == CloseOf(publisher, pubs)
           q == [ps[p] EXCEPT !.at = "display"]
<1>1. /\ pubs[p].at = "none" /\ pubs' = [ps EXCEPT ![p] = q] /\ publisher' = p
      /\ UNCHANGED <<runtime, runs, startable, stoppable>>
  BY DEF ClickCapture, NextPublisher, buttons
<1>2. PublishersInv(pubs, publisher) /\ Began(pubs, publisher)
  BY DEF HostingInv
<1>3. PublishersInv(ps, p)
  <2>1. publisher # None => pubs[publisher].at # "none"
    BY <1>2 DEF Began
  <2>2. p # None /\ p # publisher => pubs[p].at = "none"
    BY <1>1
  <2>3. p \in Publisher \cup {None}
    OBVIOUS
  <2> QED BY <1>2, <2>1, <2>2, <2>3, ForgottenIsClosed
<1>4. \A x \in Publisher : ps[x].at = pubs[x].at
  BY <1>2, CloseOfAt DEF PublishersInv
<1>5. ps[p] \in PublisherRecord /\ Kempt(ps[p], TRUE)
  BY <1>3 DEF PublishersInv
<1>6. q \in PublisherRecord /\ q.at = "display" /\ Kempt(q, TRUE)
  BY <1>1, <1>4, <1>5 DEF PublisherRecord, Kempt
<1>7. PublishersInv(pubs', publisher') /\ Began(pubs', publisher')
  <2>1. \A x \in Publisher : x # p => Kempt(ps[x], x = p)
    BY <1>3 DEF PublishersInv
  <2>2. Kempt(q, p = p)
    BY <1>6 DEF Kempt
  <2>3. \A x \in Publisher : Kempt(pubs'[x], x = publisher')
    BY <1>1, <1>3, <2>1, <2>2 DEF PublishersInv
  <2>4. pubs' \in [Publisher -> PublisherRecord]
    BY <1>1, <1>3, <1>6 DEF PublishersInv
  <2> QED BY <1>1, <1>6, <2>3, <2>4, <1>3 DEF PublishersInv, Began
<1>8. Captured'
  <2> SUFFICES ASSUME NEW r \in Runtime, runs[r].of # None
               PROVE  pubs'[runs[r].of].at \in {"mic", "done"}
    BY <1>1 DEF Captured
  <2>1. runs[r].of \in Publisher /\ pubs[runs[r].of].at \in {"mic", "done"}
    BY OfIsPublisher DEF HostingInv, Captured
  <2> QED BY <1>1, <1>3, <1>4, <2>1 DEF PublishersInv
<1> QED BY <1>1, <1>7, <1>8 DEF HostingInv

LEMMA ClickStartKeeps == ASSUME HostingInv, NEW r \in Runtime, ClickStart(r) PROVE HostingInv'
<1>0. /\ runs \in [Runtime -> RuntimeRecord] /\ runtime \in Runtime \cup {None}
      /\ \A x \in Runtime : Settles(runs[x], x = runtime)
  BY DEF HostingInv, RuntimesInv
<1>1. CASE publisher # None /\ pubs[publisher].stream
  <2> DEFINE rs == Replaced
             q == [rs[r] EXCEPT !.state = "idle", !.of = publisher, !.socket = "connecting",
                                !.bound = TRUE]
  <2>1. /\ runs' = [rs EXCEPT ![r] = q] /\ runtime' = r
        /\ UNCHANGED <<publisher, pubs, startable, stoppable>>
    BY <1>1 DEF ClickStart, buttons
  <2>2. /\ publisher \in Publisher /\ pubs[publisher] \in PublisherRecord
        /\ Kempt(pubs[publisher], publisher = publisher)
    BY <1>1 DEF HostingInv, PublishersInv
  <2>3. pubs[publisher].at \in {"mic", "done"}
    BY <1>1, <2>2 DEF Kempt, PublisherRecord
  <2>4. /\ rs \in [Runtime -> RuntimeRecord]
        /\ \A x \in Runtime : rs[x].of = runs[x].of /\ Settles(rs[x], FALSE)
    <3>1. CASE runtime = None
      <4>1. \A x \in Runtime : (x = runtime) = FALSE
        BY <3>1 DEF Runtime, None
      <4> QED BY <1>0, <3>1, <4>1 DEF Replaced
    <3>2. CASE runtime # None
      <4> DEFINE o == [runs[runtime] EXCEPT !.replaced = TRUE]
      <4>1. runtime \in Runtime /\ rs = [runs EXCEPT ![runtime] = o]
        BY <1>0, <3>2 DEF Replaced
      <4>2. o \in RuntimeRecord /\ o.of = runs[runtime].of /\ Settles(o, FALSE)
        BY <1>0, <4>1, ZenonT(60) DEF RuntimeRecord, Settles
      <4>3. \A x \in Runtime : x # runtime => Settles(runs[x], FALSE)
        BY <1>0
      <4> QED BY <1>0, <4>1, <4>2, <4>3
    <3> QED BY <3>1, <3>2
  <2>5. q \in RuntimeRecord /\ q.of = publisher /\ Settles(q, TRUE)
    <3>1. rs[r] \in RuntimeRecord
      BY <2>4
    <3>2. /\ q.state = "idle" /\ q.of = publisher /\ q.socket = "connecting" /\ q.bound = TRUE
          /\ q.active = rs[r].active /\ q.offers = rs[r].offers /\ q.replaced = rs[r].replaced
      BY <3>1 DEF RuntimeRecord
    <3>3. q \in RuntimeRecord
      BY <2>2, <3>1, ZenonT(60) DEF RuntimeRecord
    <3> HIDE DEF q
    <3> QED BY <3>2, <3>3 DEF Settles
  <2>6. Settles(q, r = r)
    BY <2>5 DEF Settles
  <2>7. \A x \in Runtime : x # r => Settles(rs[x], x = r)
    BY <2>4 DEF Settles
  <2>8. RuntimesInv(runs', runtime')
    BY <2>1, <2>4, <2>5, <2>6, <2>7 DEF RuntimesInv
  <2>9. Captured'
    <3> SUFFICES ASSUME NEW x \in Runtime, runs'[x].of # None
                 PROVE  pubs[runs'[x].of].at \in {"mic", "done"}
      BY <2>1 DEF Captured
    <3>1. CASE x = r
      BY <2>1, <2>3, <2>4, <2>5, <3>1
    <3>2. CASE x # r
      BY <2>1, <2>4, <3>2 DEF HostingInv, Captured
    <3> QED BY <3>1, <3>2
  <2> QED BY <2>1, <2>8, <2>9 DEF HostingInv
<1>2. CASE ~(publisher # None /\ pubs[publisher].stream)
  <2>1. CloseRuntime(runtime, runs) /\ runtime' = None /\ UNCHANGED <<publisher, startable, stoppable>>
    BY <1>2 DEF ClickStart, buttons
  <2> QED BY <1>0, <2>1, CloseRuntimeKeeps DEF HostingInv
<1> QED BY <1>1, <1>2

LEMMA ClickStopKeeps == ASSUME HostingInv, ClickStop PROVE HostingInv'
<1> DEFINE live == runtime # None /\ runs[runtime].state # "closed"
           ps == IF live THEN CloseOf(runs[runtime].of, pubs) ELSE pubs
<1>1. /\ runs' = IF live THEN [runs EXCEPT ![runtime] = Ended(runs[runtime])] ELSE runs
      /\ pubs' = CloseOf(publisher, ps) /\ runtime' = None /\ publisher' = None
      /\ startable' = FALSE /\ stoppable' = FALSE
  BY DEF ClickStop
<1>2. /\ runs \in [Runtime -> RuntimeRecord] /\ runtime \in Runtime \cup {None}
      /\ \A x \in Runtime : Settles(runs[x], x = runtime)
  BY DEF HostingInv, RuntimesInv
<1>3. PublishersInv(ps, publisher) /\ \A x \in Publisher : ps[x].at = pubs[x].at
  <2>1. CASE live
    <3>1. runs[runtime].of \in Publisher \cup {None}
      BY <1>2, <2>1 DEF RuntimeRecord
    <3> QED BY <2>1, <3>1, CloseOfKeeps, CloseOfAt DEF HostingInv
  <2>2. CASE ~live
    BY <2>2 DEF HostingInv
  <2> QED BY <2>1, <2>2
<1>4. PublishersInv(pubs', None) /\ \A x \in Publisher : pubs'[x].at = pubs[x].at
  <2>1. publisher # None => ps[publisher].at # "none"
    BY <1>3 DEF HostingInv, Began, PublishersInv
  <2>2. publisher \in Publisher \cup {None}
    BY DEF HostingInv, PublishersInv
  <2> QED BY <1>1, <1>3, <2>1, <2>2, ForgottenIsClosed, CloseOfAt
<1>5. /\ runs' \in [Runtime -> RuntimeRecord]
      /\ \A x \in Runtime : runs'[x].of = runs[x].of /\ Settles(runs'[x], FALSE)
  <2>1. CASE live
    <3>1. runtime \in Runtime /\ runs[runtime] \in RuntimeRecord
      BY <1>2, <2>1
    <3>2. /\ Ended(runs[runtime]) \in RuntimeRecord /\ Ended(runs[runtime]).of = runs[runtime].of
          /\ Settles(Ended(runs[runtime]), FALSE)
      BY <3>1, EndedSettles
    <3>3. \A x \in Runtime : x # runtime => Settles(runs[x], FALSE)
      BY <1>2
    <3> QED BY <1>1, <1>2, <2>1, <3>1, <3>2, <3>3
  <2>2. CASE ~live
    BY <1>1, <1>2, <2>2 DEF Settles, Runtime, None
  <2> QED BY <2>1, <2>2
<1>6. RuntimesInv(runs', runtime')
  <2>1. \A x \in Runtime : (x = None) = FALSE
    BY DEF Runtime, None
  <2> QED BY <1>1, <1>5, <2>1 DEF RuntimesInv
<1>7. Captured'
  <2> SUFFICES ASSUME NEW x \in Runtime, runs[x].of # None
               PROVE  pubs'[runs[x].of].at \in {"mic", "done"}
    BY <1>5 DEF Captured
  <2>1. runs[x].of \in Publisher /\ pubs[runs[x].of].at \in {"mic", "done"}
    BY OfIsPublisher DEF HostingInv, Captured
  <2> QED BY <1>4, <2>1
<1> QED BY <1>1, <1>4, <1>6, <1>7 DEF HostingInv, Began

LEMMA HostingNext == HostingInv /\ [BrowserNext]_vars => HostingInv'
<1> SUFFICES ASSUME HostingInv, BrowserNext \/ UNCHANGED vars PROVE HostingInv'
  OBVIOUS
<1>1. CASE UNCHANGED vars
  BY <1>1 DEF vars, buttons, HostingInv, Captured
<1>2. CASE BrowserNext
  BY <1>2, ClickStopKeeps, ClickCaptureKeeps, ClickStartKeeps, PublisherSteps, RuntimeSteps
  DEF BrowserNext
<1> QED BY <1>1, <1>2

LEMMA HostingObeys == HostingInv => CaptureObeys /\ StopFreesRole
<1> SUFFICES ASSUME HostingInv PROVE CaptureObeys /\ StopFreesRole
  OBVIOUS
<1>1. \A p \in Publisher : pubs[p] \in PublisherRecord /\ Kempt(pubs[p], p = publisher)
  BY DEF HostingInv, PublishersInv
<1>2. \A r \in Runtime : Settles(runs[r], r = runtime)
  BY DEF HostingInv, RuntimesInv
<1>3. StoppedCapturesNothing
  BY <1>1 DEF StoppedCapturesNothing, Pending, Kempt, PublisherRecord
<1>4. GateFollowsPause
  BY <1>1 DEF GateFollowsPause, Kempt
<1>5. StopFreesRole
  BY <1>2 DEF StopFreesRole, Settles
<1> QED BY <1>3, <1>4, <1>5 DEF CaptureObeys

-----------------------------------------------------------------------------
(***************************************************************************)
(* Recordings and the replay.                                              *)
(***************************************************************************)
RecorderRecord == [use : {"replay", "recording"}, stream : Nat, live : BOOLEAN]

CaptureTypes ==
  /\ stream \in Nat /\ recorders \in Seq(RecorderRecord)
  /\ rec \in [state : {"idle", "recording", "stopping", "stopped", "error"}, stream : Nat,
              recorder : Nat, chunks : Seq(Nat)]
  /\ replay \in [state : {"none", "recording", "error"}, recorder : Nat, count : Nat, made : Nat]
  /\ shown \in BOOLEAN /\ ended \in BOOLEAN /\ overlapped \in BOOLEAN

\* A recorder of a replay that is on is that of the replay the page has.
ReplayInv ==
  /\ replay.state = "recording" =>
       /\ ~ended /\ replay.recorder \in 1..Len(recorders)
       /\ recorders[replay.recorder].use = "replay"
       /\ recorders[replay.recorder].stream = stream
  /\ \A r \in 1..Len(recorders) : recorders[r].use = "replay" /\ recorders[r].live =>
       replay.state = "recording" /\ r = replay.recorder
  /\ replay.count <= MaxChunks
  /\ replay.made <= MaxChunks => replay.count = replay.made

\* Until two recordings overlap there is one recorder at most, and nothing waits to be
\* saved while it is on.
RecordingInv ==
  /\ rec.state \in {"recording", "stopping"} =>
       rec.recorder \in 1..Len(recorders) /\ recorders[rec.recorder].use = "recording"
  /\ ~overlapped =>
       /\ \A r \in 1..Len(recorders) : recorders[r].use = "recording" /\ recorders[r].live =>
            r = rec.recorder /\ rec.state \in {"recording", "stopping"} /\ shown
       /\ rec.state \in {"recording", "stopping"} => rec.chunks = <<>> /\ saving = {}
       /\ \A clip \in saving \cup saved : clip.chunks = <<clip.recorder>>

CaptureInv == CaptureTypes /\ ReplayInv /\ RecordingInv

LEMMA DeadIs ==
  ASSUME NEW rs \in Seq(RecorderRecord), NEW r \in Nat, r = 0 \/ r \in 1..Len(rs)
  PROVE  /\ Dead(rs, r) \in Seq(RecorderRecord) /\ Len(Dead(rs, r)) = Len(rs)
         /\ \A i \in 1..Len(rs) :
              /\ Dead(rs, r)[i].use = rs[i].use /\ Dead(rs, r)[i].stream = rs[i].stream
              /\ Dead(rs, r)[i].live => rs[i].live /\ i # r
<1>1. CASE r = 0
  <2>1. Dead(rs, r) = rs /\ \A i \in 1..Len(rs) : i # r
    BY <1>1 DEF Dead
  <2> QED BY <2>1
<1>2. CASE r # 0
  <2> DEFINE q == [rs[r] EXCEPT !.live = FALSE]
  <2>1. r \in 1..Len(rs) /\ Dead(rs, r) = [rs EXCEPT ![r] = q]
    BY <1>2 DEF Dead
  <2>2. rs[r] \in RecorderRecord
    BY <2>1
  <2>3. q \in RecorderRecord /\ q.use = rs[r].use /\ q.stream = rs[r].stream /\ ~q.live
    BY <2>2 DEF RecorderRecord
  <2> QED BY <2>1, <2>3
<1> QED BY <1>1, <1>2

LEMMA AppendIs ==
  ASSUME NEW S, NEW s \in Seq(S), NEW e \in S
  PROVE  /\ Append(s, e) \in Seq(S) /\ Len(Append(s, e)) = Len(s) + 1
         /\ Append(s, e)[Len(s) + 1] = e
         /\ \A i \in 1..Len(s) : Append(s, e)[i] = s[i]
         /\ 1..(Len(s) + 1) = (1..Len(s)) \cup {Len(s) + 1}
OBVIOUS

LEMMA CaptureBegins == CaptureInit => CaptureInv
<1> SUFFICES ASSUME CaptureInit PROVE CaptureInv
  OBVIOUS
<1>1. CaptureTypes
  <2>1. <<>> \in Seq(Nat) /\ <<>> \in Seq(RecorderRecord)
    OBVIOUS
  <2>2. rec = [state |-> "idle", stream |-> 0, recorder |-> 0, chunks |-> <<>>]
        /\ replay = [state |-> "none", recorder |-> 0, count |-> 0, made |-> 0]
        /\ recorders = <<>> /\ stream = 0
        /\ shown = FALSE /\ ended = FALSE /\ overlapped = FALSE
    BY DEF CaptureInit, NoReplay
  <2> QED BY <2>1, <2>2 DEF CaptureTypes
<1>2. ReplayInv
  BY CaptureAssumption DEF CaptureInit, ReplayInv, NoReplay
<1>3. RecordingInv
  BY DEF CaptureInit, RecordingInv
<1> QED BY <1>1, <1>2, <1>3 DEF CaptureInv

\* Without a replay no recorder of one is on.
LEMMA StoppedIs ==
  ASSUME CaptureInv
  PROVE  /\ Stopped(recorders) \in Seq(RecorderRecord) /\ Len(Stopped(recorders)) = Len(recorders)
         /\ \A i \in 1..Len(recorders) :
              /\ Stopped(recorders)[i].use = recorders[i].use
              /\ Stopped(recorders)[i].live => recorders[i].live /\ recorders[i].use = "recording"
<1> DEFINE r == IF replay.state = "recording" THEN replay.recorder ELSE 0
<1>1. r \in Nat /\ (r = 0 \/ r \in 1..Len(recorders)) /\ Stopped(recorders) = Dead(recorders, r)
  BY DEF CaptureInv, CaptureTypes, ReplayInv, Stopped
<1>2. recorders \in Seq(RecorderRecord)
  BY DEF CaptureInv, CaptureTypes
<1>3. \A i \in 1..Len(recorders) : recorders[i].live /\ recorders[i].use # "recording" => i = r
  <2>1. \A i \in 1..Len(recorders) : recorders[i] \in RecorderRecord
    BY <1>2
  <2>2. \A i \in 1..Len(recorders) : recorders[i].use \in {"replay", "recording"}
    BY <2>1 DEF RecorderRecord
  <2> QED BY <2>2 DEF CaptureInv, ReplayInv
<1> QED BY <1>1, <1>2, <1>3, DeadIs

LEMMA StreamArrivesKeeps == ASSUME CaptureInv, StreamArrives PROVE CaptureInv'
<1> DEFINE rs == Stopped(recorders)
           e == [use |-> "replay", stream |-> stream + 1, live |-> TRUE]
<1>1. /\ rs \in Seq(RecorderRecord) /\ Len(rs) = Len(recorders) /\ e \in RecorderRecord
      /\ \A i \in 1..Len(rs) : /\ rs[i].use = recorders[i].use
                               /\ rs[i].live => recorders[i].live /\ recorders[i].use = "recording"
  BY StoppedIs DEF CaptureInv, CaptureTypes, RecorderRecord
<1>2. /\ ~ended /\ stream' = stream + 1 /\ stream' \in Nat
      /\ UNCHANGED <<rec, saving, shown, saved, ended, overlapped>>
  BY DEF StreamArrives, CaptureInv, CaptureTypes
<1>3. CASE recorders' = rs /\ replay' = NoReplay
  <2>1. CaptureTypes'
    BY <1>1, <1>2, <1>3 DEF CaptureInv, CaptureTypes, NoReplay
  <2>2. ReplayInv'
    BY <1>1, <1>3, CaptureAssumption DEF ReplayInv, NoReplay
  <2>3. RecordingInv'
    BY <1>1, <1>2, <1>3 DEF CaptureInv, RecordingInv
  <2> QED BY <2>1, <2>2, <2>3 DEF CaptureInv
<1>4. CASE /\ recorders' = Append(rs, e)
           /\ replay' = [state |-> "recording", recorder |-> Len(recorders) + 1, count |-> 0,
                         made |-> 0]
  <2>1. /\ recorders' \in Seq(RecorderRecord) /\ Len(recorders') = Len(recorders) + 1
        /\ recorders'[Len(recorders) + 1] = e
        /\ \A i \in 1..Len(recorders) : recorders'[i] = rs[i]
        /\ 1..Len(recorders') = (1..Len(recorders)) \cup {Len(recorders) + 1}
        /\ Len(recorders) \in Nat
    BY <1>1, <1>4, AppendIs
  <2>2. CaptureTypes'
    BY <1>1, <1>2, <1>4, <2>1 DEF CaptureInv, CaptureTypes
  <2>3. ReplayInv'
    <3>1. /\ replay'.state = "recording" /\ replay'.recorder = Len(recorders) + 1
          /\ replay'.count = 0 /\ replay'.made = 0
      BY <1>4
    <3>2. Len(recorders) + 1 \in 1..Len(recorders') /\ ~ended' /\ e.use = "replay" /\ e.stream = stream'
      BY <1>2, <2>1
    <3>3. \A r \in 1..Len(recorders') : recorders'[r].use = "replay" /\ recorders'[r].live =>
            r = Len(recorders) + 1
      BY <1>1, <2>1
    <3> QED BY <2>1, <3>1, <3>2, <3>3, CaptureAssumption DEF ReplayInv
  <2>4. RecordingInv'
    <3>1. \A r \in 1..Len(recorders') : recorders'[r].use = "recording" /\ recorders'[r].live =>
            r \in 1..Len(recorders) /\ recorders[r].use = "recording" /\ recorders[r].live
      BY <1>1, <2>1
    <3>2. \A i \in 1..Len(recorders) : recorders'[i].use = recorders[i].use
      BY <1>1, <2>1
    <3> QED BY <1>2, <2>1, <3>1, <3>2 DEF CaptureInv, RecordingInv
  <2> QED BY <2>2, <2>3, <2>4 DEF CaptureInv
<1> QED BY <1>3, <1>4, <1>2 DEF StreamArrives

LEMMA ReplayKeeps == ASSUME CaptureInv, ReplayData \/ ReplayFails PROVE CaptureInv'
<1>0. /\ recorders \in Seq(RecorderRecord)
      /\ replay \in [state : {"none", "recording", "error"}, recorder : Nat, count : Nat, made : Nat]
      /\ replay.state = "recording" /\ replay.recorder \in 1..Len(recorders)
  BY DEF CaptureInv, CaptureTypes, ReplayInv, ReplayData, ReplayFails
<1>1. CASE ReplayData
  <2> DEFINE count == Kept(replay.count + 1)
             made == IF replay.made > MaxChunks THEN replay.made ELSE replay.made + 1
  <2>1. count \in Nat /\ made \in Nat /\ count <= MaxChunks /\ (made <= MaxChunks => count = made)
    BY <1>0, CaptureAssumption DEF Kept, CaptureInv, ReplayInv
  <2>2. /\ replay' = [replay EXCEPT !.count = count, !.made = made]
        /\ UNCHANGED <<stream, recorders, rec, saving, shown, saved, ended, overlapped>>
    BY <1>1 DEF ReplayData
  <2>3. /\ replay' \in [state : {"none", "recording", "error"}, recorder : Nat, count : Nat, made : Nat]
        /\ replay'.state = "recording" /\ replay'.recorder = replay.recorder
        /\ replay'.count = count /\ replay'.made = made
    BY <1>0, <2>1, <2>2
  <2>4. CaptureTypes'
    BY <2>2, <2>3 DEF CaptureInv, CaptureTypes
  <2>5. ReplayInv'
    BY <1>0, <2>1, <2>2, <2>3 DEF CaptureInv, ReplayInv
  <2>6. RecordingInv'
    BY <2>2 DEF CaptureInv, RecordingInv
  <2> QED BY <2>4, <2>5, <2>6 DEF CaptureInv
<1>2. CASE ReplayFails
  <2> DEFINE rs == Dead(recorders, replay.recorder)
  <2>1. /\ recorders' = rs /\ replay' = [replay EXCEPT !.state = "error"]
        /\ UNCHANGED <<stream, rec, saving, shown, saved, ended, overlapped>>
    BY <1>2 DEF ReplayFails
  <2>2. /\ rs \in Seq(RecorderRecord) /\ Len(rs) = Len(recorders)
        /\ \A i \in 1..Len(rs) : rs[i].use = recorders[i].use
             /\ (rs[i].live => recorders[i].live /\ i # replay.recorder)
    BY <1>0, DeadIs
  <2>3. /\ replay' \in [state : {"none", "recording", "error"}, recorder : Nat, count : Nat, made : Nat]
        /\ replay'.state = "error" /\ replay'.count = replay.count /\ replay'.made = replay.made
    BY <1>0, <2>1
  <2>4. CaptureTypes'
    BY <2>1, <2>2, <2>3 DEF CaptureInv, CaptureTypes
  <2>5. ReplayInv'
    BY <2>1, <2>2, <2>3 DEF CaptureInv, ReplayInv
  <2>6. RecordingInv'
    BY <2>1, <2>2 DEF CaptureInv, RecordingInv
  <2> QED BY <2>4, <2>5, <2>6 DEF CaptureInv
<1> QED BY <1>1, <1>2

LEMMA StartRecordingKeeps ==
  ASSUME CaptureInv, NEW fails \in BOOLEAN, StartRecording(fails)
  PROVE  CaptureInv'
<1> DEFINE of == IF rec.stream = 0 THEN stream ELSE rec.stream
           e == [use |-> "recording", stream |-> of, live |-> ~fails]
           n == Len(recorders) + 1
<1>1. /\ rec.state # "recording"
      /\ recorders' = Append(recorders, e)
      /\ rec' = [state |-> "recording", stream |-> of, recorder |-> n, chunks |-> <<>>]
      /\ shown' = (shown \/ ~fails)
      /\ overlapped' = (overlapped \/ rec.state = "stopping" \/ saving # {})
      /\ UNCHANGED <<stream, replay, saving, saved, ended>>
  BY DEF StartRecording, Cleared
<1>2. recorders \in Seq(RecorderRecord) /\ e \in RecorderRecord /\ of \in Nat
  BY DEF CaptureInv, CaptureTypes, RecorderRecord
<1>3. /\ recorders' \in Seq(RecorderRecord) /\ Len(recorders') = n /\ recorders'[n] = e
      /\ \A i \in 1..Len(recorders) : recorders'[i] = recorders[i]
      /\ 1..Len(recorders') = (1..Len(recorders)) \cup {n} /\ n \in Nat /\ n \in 1..Len(recorders')
  BY <1>1, <1>2, AppendIs
<1>4. CaptureTypes'
  <2>1. /\ rec' \in [state : {"idle", "recording", "stopping", "stopped", "error"}, stream : Nat,
                     recorder : Nat, chunks : Seq(Nat)]
    BY <1>1, <1>2, <1>3
  <2> QED BY <1>1, <1>3, <2>1 DEF CaptureInv, CaptureTypes
<1>5. ReplayInv'
  <2>1. recorders'[n].use = "recording"
    BY <1>3
  <2>2. \A r \in 1..Len(recorders') : recorders'[r].use = "replay" =>
          r \in 1..Len(recorders) /\ recorders'[r] = recorders[r]
    BY <1>3, <2>1
  <2>3. replay.state = "recording" => replay.recorder \in 1..Len(recorders)
          /\ replay.recorder \in 1..Len(recorders')
          /\ recorders'[replay.recorder] = recorders[replay.recorder]
    BY <1>3 DEF CaptureInv, ReplayInv
  <2> QED BY <1>1, <2>2, <2>3 DEF CaptureInv, ReplayInv
<1>6. RecordingInv'
  <2>1. rec'.state = "recording" /\ rec'.recorder = n /\ rec'.chunks = <<>>
    BY <1>1
  <2>2. ASSUME ~overlapped'
        PROVE  /\ ~overlapped /\ saving = {} /\ rec.state \notin {"recording", "stopping"}
    BY <1>1, <2>2
  <2>3. ASSUME ~overlapped', NEW r \in 1..Len(recorders'), recorders'[r].use = "recording",
               recorders'[r].live
        PROVE  r = n /\ shown'
    <3>1. r = n
      BY <1>3, <2>2, <2>3 DEF CaptureInv, RecordingInv
    <3>2. ~fails
      <4>1. recorders'[r] = e
        BY <1>3, <3>1
      <4>2. e.live
        BY <2>3, <4>1, Zenon
      <4> QED BY <4>2
    <3> QED BY <1>1, <3>1, <3>2
  <2> QED BY <1>1, <1>3, <2>1, <2>2, <2>3 DEF CaptureInv, RecordingInv
<1> QED BY <1>4, <1>5, <1>6 DEF CaptureInv

\* A recorder that records ends, the controller's becomes q.
LEMMA RecorderDies ==
  ASSUME CaptureInv, NEW r \in 1..Len(recorders), recorders[r].use = "recording",
         recorders' = Dead(recorders, r), UNCHANGED <<stream, replay, ended>>
  PROVE  /\ recorders' \in Seq(RecorderRecord) /\ Len(recorders') = Len(recorders)
         /\ \A i \in 1..Len(recorders) :
              /\ recorders'[i].use = recorders[i].use
              /\ recorders'[i].live => recorders[i].live /\ i # r
         /\ ReplayInv'
<1>1. recorders \in Seq(RecorderRecord) /\ r \in Nat
  BY DEF CaptureInv, CaptureTypes
<1>2. /\ recorders' \in Seq(RecorderRecord) /\ Len(recorders') = Len(recorders)
      /\ \A i \in 1..Len(recorders) :
           /\ recorders'[i].use = recorders[i].use /\ recorders'[i].stream = recorders[i].stream
           /\ recorders'[i].live => recorders[i].live /\ i # r
  BY <1>1, DeadIs
<1>3. ReplayInv'
  BY <1>2 DEF CaptureInv, ReplayInv
<1> QED BY <1>2, <1>3

\* What a recorder says when it has ended is whole, unless recordings overlap.
LEMMA RecorderStops ==
  ASSUME CaptureInv, NEW r \in 1..Len(recorders), recorders[r].use = "recording",
         recorders[r].live, recorders' = Dead(recorders, r),
         rec' = [rec EXCEPT !.state = "stopped", !.chunks = Append(rec.chunks, r)],
         saving' = saving \union {[recorder |-> r, chunks |-> Append(rec.chunks, r)]},
         UNCHANGED <<stream, replay, shown, saved, ended, overlapped>>
  PROVE  CaptureInv'
<1>1. /\ recorders' \in Seq(RecorderRecord) /\ Len(recorders') = Len(recorders)
      /\ \A i \in 1..Len(recorders) :
           /\ recorders'[i].use = recorders[i].use
           /\ recorders'[i].live => recorders[i].live /\ i # r
      /\ ReplayInv'
  BY RecorderDies
<1>2. Append(rec.chunks, r) \in Seq(Nat)
  BY DEF CaptureInv, CaptureTypes
<1>3. CaptureTypes' /\ rec'.state = "stopped"
  BY <1>1, <1>2 DEF CaptureInv, CaptureTypes
<1>4. RecordingInv'
  <2>1. ASSUME ~overlapped PROVE rec.chunks = <<>> /\ r = rec.recorder
    BY <2>1 DEF CaptureInv, RecordingInv
  <2>2. ASSUME ~overlapped, NEW clip \in saving' \cup saved' PROVE clip.chunks = <<clip.recorder>>
    <3>1. CASE clip \in saving \cup saved
      BY <2>2, <3>1 DEF CaptureInv, RecordingInv
    <3>2. CASE clip = [recorder |-> r, chunks |-> Append(rec.chunks, r)]
      <4>0. rec.chunks = <<>>
        BY <2>1, <2>2
      <4>1. Append(rec.chunks, r) = <<r>>
        BY <4>0
      <4>2. clip.chunks = <<r>> /\ clip.recorder = r
        BY <3>2, <4>1
      <4> QED BY <4>2
    <3> QED BY <3>1, <3>2
  <2>3. ASSUME ~overlapped, NEW i \in 1..Len(recorders'), recorders'[i].use = "recording",
               recorders'[i].live
        PROVE  FALSE
    BY <1>1, <2>1, <2>3 DEF CaptureInv, RecordingInv
  <2> QED BY <1>3, <2>2, <2>3 DEF RecordingInv
<1> QED BY <1>1, <1>3, <1>4 DEF CaptureInv

LEMMA RecorderSteps ==
  ASSUME CaptureInv,
         \/ \E failed \in BOOLEAN : RecorderEnds(failed) \/ RecorderLost(failed)
         \/ \E r \in DOMAIN recorders : OldRecorderEnds(r)
  PROVE  CaptureInv'
<1>0. /\ recorders \in Seq(RecorderRecord) /\ DOMAIN recorders = 1..Len(recorders)
      /\ rec \in [state : {"idle", "recording", "stopping", "stopped", "error"}, stream : Nat,
                  recorder : Nat, chunks : Seq(Nat)]
  BY DEF CaptureInv, CaptureTypes
<1>1. rec.state \in {"recording", "stopping"} => rec.recorder \in 1..Len(recorders)
  BY DEF CaptureInv, RecordingInv
<1>2. ASSUME NEW r \in DOMAIN recorders, OldRecorderEnds(r) PROVE CaptureInv'
  <2>1. r \in 1..Len(recorders) /\ recorders[r].use = "recording" /\ recorders[r].live
    BY <1>0, <1>2 DEF OldRecorderEnds, Live
  <2> QED BY <1>2, <2>1, RecorderStops DEF OldRecorderEnds
<1>3. ASSUME NEW failed \in BOOLEAN, RecorderEnds(failed) \/ RecorderLost(failed) PROVE CaptureInv'
  <2> DEFINE r == rec.recorder
  <2>1. r \in 1..Len(recorders) /\ recorders[r].live
    BY <1>1, <1>3 DEF RecorderEnds, RecorderLost
  <2>2. recorders[r].use = "recording"
    BY <1>3 DEF CaptureInv, RecordingInv, RecorderEnds, RecorderLost
  <2>3. CASE RecorderEnds(FALSE)
    BY <2>1, <2>2, <2>3, RecorderStops DEF RecorderEnds
  <2>4. CASE RecorderEnds(TRUE) \/ RecorderLost(TRUE)
    <3>1. /\ recorders' = Dead(recorders, r) /\ rec' = [rec EXCEPT !.state = "error"]
          /\ UNCHANGED <<stream, replay, saving, shown, saved, ended>>
          /\ overlapped' = overlapped
      BY <2>4 DEF RecorderEnds, RecorderLost, CaptureInv, CaptureTypes
    <3>2. /\ recorders' \in Seq(RecorderRecord) /\ Len(recorders') = Len(recorders)
          /\ \A i \in 1..Len(recorders) :
               /\ recorders'[i].use = recorders[i].use
               /\ recorders'[i].live => recorders[i].live /\ i # r
          /\ ReplayInv'
      BY <2>1, <2>2, <3>1, RecorderDies
    <3>3. CaptureTypes' /\ rec'.state = "error"
      BY <1>0, <3>1, <3>2 DEF CaptureInv, CaptureTypes
    <3>4. RecordingInv'
      BY <3>1, <3>2, <3>3 DEF CaptureInv, RecordingInv
    <3> QED BY <3>2, <3>3, <3>4 DEF CaptureInv
  <2>5. CASE RecorderLost(FALSE)
    <3>1. /\ recorders' = Dead(recorders, r)
          /\ rec' = [rec EXCEPT !.chunks = Append(rec.chunks, r)]
          /\ UNCHANGED <<stream, replay, saving, shown, saved, ended>>
          /\ overlapped' = TRUE
      BY <2>5 DEF RecorderLost
    <3>2. /\ recorders' \in Seq(RecorderRecord) /\ Len(recorders') = Len(recorders)
          /\ \A i \in 1..Len(recorders) : recorders'[i].use = recorders[i].use
          /\ ReplayInv'
      BY <2>1, <2>2, <3>1, RecorderDies
    <3>3. Append(rec.chunks, r) \in Seq(Nat)
      BY <1>0, <2>1
    <3>4. CaptureTypes' /\ rec'.state = rec.state /\ rec'.recorder = rec.recorder
      BY <1>0, <3>1, <3>2, <3>3 DEF CaptureInv, CaptureTypes
    <3>5. RecordingInv'
      BY <1>1, <3>1, <3>2, <3>4 DEF CaptureInv, RecordingInv
    <3> QED BY <3>2, <3>4, <3>5 DEF CaptureInv
  <2> QED BY <1>3, <2>3, <2>4, <2>5
<1> QED BY <1>2, <1>3

LEMMA RecordingButtons ==
  ASSUME CaptureInv,
         \/ StopRecording \/ EndSession
         \/ \E refused \in BOOLEAN : \E clip \in saving : Save(clip, refused)
  PROVE  CaptureInv'
<1>0. /\ rec \in [state : {"idle", "recording", "stopping", "stopped", "error"}, stream : Nat,
                  recorder : Nat, chunks : Seq(Nat)]
  BY DEF CaptureInv, CaptureTypes
<1>1. CASE StopRecording
  <2>1. /\ rec.state = "recording" /\ rec' = [rec EXCEPT !.state = "stopping"]
        /\ UNCHANGED <<stream, recorders, replay, saving, shown, saved, ended, overlapped>>
    BY <1>1 DEF StopRecording
  <2>2. CaptureTypes' /\ rec'.state = "stopping" /\ rec'.recorder = rec.recorder
        /\ rec'.chunks = rec.chunks
    BY <1>0, <2>1 DEF CaptureInv, CaptureTypes
  <2>3. ReplayInv'
    BY <2>1 DEF CaptureInv, ReplayInv
  <2>4. RecordingInv'
    BY <2>1, <2>2 DEF CaptureInv, RecordingInv
  <2> QED BY <2>2, <2>3, <2>4 DEF CaptureInv
<1>2. CASE EndSession
  <2>1. /\ recorders' = Stopped(recorders) /\ replay' = NoReplay /\ ended' = TRUE
        /\ UNCHANGED <<stream, rec, saving, shown, saved, overlapped>>
    BY <1>2 DEF EndSession
  <2>2. /\ recorders' \in Seq(RecorderRecord) /\ Len(recorders') = Len(recorders)
        /\ \A i \in 1..Len(recorders) :
             /\ recorders'[i].use = recorders[i].use
             /\ recorders'[i].live => recorders[i].live /\ recorders[i].use = "recording"
    BY <2>1, StoppedIs
  <2>3. CaptureTypes'
    BY <2>1, <2>2 DEF CaptureInv, CaptureTypes, NoReplay
  <2>4. ReplayInv'
    BY <2>1, <2>2, CaptureAssumption DEF ReplayInv, NoReplay
  <2>5. RecordingInv'
    BY <2>1, <2>2 DEF CaptureInv, RecordingInv
  <2> QED BY <2>3, <2>4, <2>5 DEF CaptureInv
<1>3. ASSUME NEW refused \in BOOLEAN, NEW clip \in saving, Save(clip, refused) PROVE CaptureInv'
  <2>1. /\ saving' = saving \ {clip} /\ saved' \in {saved, saved \cup {clip}}
        /\ shown' \in {shown, FALSE}
        /\ UNCHANGED <<stream, recorders, rec, replay, ended, overlapped>>
    BY <1>3 DEF Save
  <2>2. CaptureTypes' /\ ReplayInv'
    BY <2>1 DEF CaptureInv, CaptureTypes, ReplayInv
  <2>3. RecordingInv'
    <3>1. ASSUME ~overlapped, NEW r \in 1..Len(recorders), recorders[r].use = "recording",
                 recorders[r].live
          PROVE  FALSE
      BY <3>1 DEF CaptureInv, RecordingInv
    <3>2. ~overlapped => \A c \in saving' \cup saved' : c.chunks = <<c.recorder>>
      BY <2>1 DEF CaptureInv, RecordingInv
    <3>3. ~overlapped /\ rec.state \in {"recording", "stopping"} => FALSE
      BY DEF CaptureInv, RecordingInv
    <3> QED BY <2>1, <3>1, <3>2, <3>3 DEF CaptureInv, RecordingInv
  <2> QED BY <2>2, <2>3 DEF CaptureInv
<1> QED BY <1>1, <1>2, <1>3

LEMMA CaptureGoesOn == CaptureInv /\ [CaptureNext]_captureVars => CaptureInv'
<1> SUFFICES ASSUME CaptureInv, CaptureNext \/ UNCHANGED captureVars PROVE CaptureInv'
  OBVIOUS
<1>1. CASE UNCHANGED captureVars
  BY <1>1 DEF captureVars, CaptureInv, CaptureTypes, ReplayInv, RecordingInv
<1>2. CASE CaptureNext
  BY <1>2, StreamArrivesKeeps, ReplayKeeps, StartRecordingKeeps, RecorderSteps, RecordingButtons
  DEF CaptureNext
<1> QED BY <1>1, <1>2

LEMMA CaptureIsWhole == CaptureInv => ReplayIsOfStream /\ RecordingsAreWhole
<1> SUFFICES ASSUME CaptureInv PROVE ReplayIsOfStream /\ RecordingsAreWhole
  OBVIOUS
<1>1. DOMAIN recorders = 1..Len(recorders)
  BY DEF CaptureInv, CaptureTypes
<1>2. ReplayIsOfStream
  BY <1>1 DEF CaptureInv, ReplayInv, ReplayIsOfStream, Live
<1>3. RecordingsAreWhole
  BY <1>1 DEF CaptureInv, RecordingInv, RecordingsAreWhole, Live
<1> QED BY <1>2, <1>3

-----------------------------------------------------------------------------
(***************************************************************************)
(* The launch plan.                                                        *)
(***************************************************************************)
\* A set of numbers has a least one.
LEMMA LeastNumber ==
  ASSUME NEW S \in SUBSET Nat, S # {} PROVE \E i \in S : \A j \in S : i <= j
<1>1. PICK i \in S : \A j \in S : ~(<<j, i>> \in OpToRel(<, Nat))
  BY WFMin, NatLessThanWellFounded, Zenon
<1>2. \A j \in S : ~(j < i)
  BY <1>1 DEF OpToRel
<1> QED BY <1>2

LEMMA BothAre ==
  ASSUME NEW S, NEW u \in Seq(S), NEW v \in Seq(S), NEW k \in 1..Len(u \o v)
  PROVE  \/ k \in 1..Len(u) /\ (u \o v)[k] = u[k]
         \/ k - Len(u) \in 1..Len(v) /\ (u \o v)[k] = v[k - Len(u)]
OBVIOUS

LEMMA RemoveAtIs ==
  ASSUME NEW S, NEW s \in Seq(S), NEW i \in 1..Len(s)
  PROVE  /\ RemoveAt(s, i) \in Seq(S)
         /\ \A k \in 1..Len(RemoveAt(s, i)) : \E j \in 1..Len(s) : RemoveAt(s, i)[k] = s[j]
<1> DEFINE u == SubSeq(s, 1, i - 1)
           v == SubSeq(s, i + 1, Len(s))
<1>1. u \in Seq(S) /\ Len(u) = i - 1 /\ \A k \in 1..Len(u) : u[k] = s[k] /\ k \in 1..Len(s)
  OBVIOUS
<1>2. v \in Seq(S) /\ \A k \in 1..Len(v) : v[k] = s[i + k] /\ i + k \in 1..Len(s)
  OBVIOUS
<1>3. RemoveAt(s, i) = u \o v
  BY DEF RemoveAt
<1> HIDE DEF u, v
<1>4. u \in Seq(S) /\ v \in Seq(S) /\ u \o v \in Seq(S)
  BY <1>1, <1>2
<1>5. ASSUME NEW k \in 1..Len(u \o v) PROVE \E j \in 1..Len(s) : (u \o v)[k] = s[j]
  <2>1. CASE k \in 1..Len(u) /\ (u \o v)[k] = u[k]
    BY <1>1, <2>1
  <2>2. CASE k - Len(u) \in 1..Len(v) /\ (u \o v)[k] = v[k - Len(u)]
    <3>1. (u \o v)[k] = s[i + (k - Len(u))] /\ i + (k - Len(u)) \in 1..Len(s)
      BY <1>2, <2>2
    <3> QED BY <3>1
  <2> QED BY <1>4, <2>1, <2>2, BothAre
<1> QED BY <1>3, <1>4, <1>5

\* The plan that is shown, the files and the runtime in it.
PlanInv ==
  /\ profiles \in Seq(ProfileRecord) /\ games \in Seq(GameFile)
  /\ \A file \in firmware : file.digest
  /\ PlanIsPicked /\ agreed \in {launch, Nothing}
  /\ left # <<>> => left = <<launch, launch>> /\ launch.runtime = "native"

LEMMA PlanBegins == PlanInit => PlanInv
BY DEF PlanInit, PlanInv, PlanIsPicked

LEMMA ProfileIsTrusted ==
  ASSUME PlanInv, NEW core
  PROVE  Profile(core).trust # "unverified"
<1> DEFINE matching == {i \in DOMAIN profiles : Matches(core, profiles[i])}
           first == CHOOSE i \in matching : \A j \in matching : i <= j
<1>1. ASSUME matching # {} PROVE first \in matching
  <2>1. matching \subseteq Nat
    BY DEF PlanInv
  <2>2. \E i \in matching : \A j \in matching : i <= j
    BY <1>1, <2>1, LeastNumber
  <2> QED BY <2>2
<1>2. CASE BrowserReady(core)
  BY <1>2 DEF Profile
<1>3. CASE ~BrowserReady(core) /\ matching = {}
  BY <1>3 DEF Profile
<1>4. CASE ~BrowserReady(core) /\ matching # {}
  <2>1. Profile(core) = [id |-> profiles[first].id, trust |-> profiles[first].trust]
    BY <1>4 DEF Profile
  <2>2. Matches(core, profiles[first])
    BY <1>1, <1>4
  <2> QED BY <2>1, <2>2 DEF Matches
<1> QED BY <1>2, <1>3, <1>4

\* What a step leaves alone.
PlanKept == UNCHANGED <<launch, agreed, left, games, firmware, profiles>>

LEMMA LibrarySteps ==
  ASSUME PlanInv,
         \/ \E to \in {"failed", "hidden", "shown"} : LoadCores(to)
         \/ Collected \/ \E file \in FirmwareFile : PickFirmware(file) \/ HashFails(file)
         \/ \E files \in {{file} : file \in GameFile \cup FirmwareFile} \cup {GameFile \cup FirmwareFile} :
              Forget(files)
         \/ UNCHANGED planVars
  PROVE  PlanInv'
<1>1. PlanKept
  BY DEF LoadCores, Collected, PickFirmware, HashFails, Forget, On, planVars, PlanKept
<1> QED BY <1>1 DEF PlanKept, PlanInv, PlanIsPicked

LEMMA PickSteps ==
  ASSUME PlanInv, (\E file \in GameFile : PickGame(file)) \/ \E file \in FirmwareFile : Hashed(file)
  PROVE  PlanInv'
<1>1. ASSUME NEW file \in GameFile, PickGame(file) PROVE PlanInv'
  <2>1. games' = Append(games, file) /\ UNCHANGED <<firmware, profiles, launch, agreed, left>>
    BY <1>1 DEF PickGame, On
  <2>2. games \in Seq(GameFile)
    BY DEF PlanInv
  <2>3. games' \in Seq(GameFile) /\ \A i \in DOMAIN games : i \in DOMAIN games' /\ games'[i] = games[i]
    BY <2>1, <2>2
  <2>4. PlanIsPicked'
    BY <2>1, <2>3 DEF PlanInv, PlanIsPicked
  <2> QED BY <2>1, <2>3, <2>4 DEF PlanInv
<1>2. ASSUME NEW file \in FirmwareFile, Hashed(file) PROVE PlanInv'
  <2>1. /\ firmware' = firmware \cup {[file |-> file, digest |-> TRUE]}
        /\ UNCHANGED <<games, profiles, launch, agreed, left>>
    BY <1>2 DEF Hashed, On
  <2>2. PlanIsPicked'
    BY <2>1 DEF PlanInv, PlanIsPicked
  <2> QED BY <2>1, <2>2 DEF PlanInv
<1> QED BY <1>1, <1>2

LEMMA ProfileSteps ==
  ASSUME PlanInv, NEW record \in ProfileRecord, SaveProfile(record) \/ RemoveProfile(record.id)
  PROVE  PlanInv'
<1>1. UNCHANGED <<launch, agreed, left, games, firmware>>
  BY DEF SaveProfile, RemoveProfile, On
<1>2. profiles \in Seq(ProfileRecord)
  BY DEF PlanInv
<1>3. profiles' \in Seq(ProfileRecord)
  <2>1. CASE SaveProfile(record)
    <3>1. CASE profiles' = Append(profiles, record)
      BY <1>2, <3>1
    <3>2. CASE profiles' = [i \in DOMAIN profiles |->
                              IF profiles[i].id = record.id THEN record ELSE profiles[i]]
      <4>1. DOMAIN profiles = 1..Len(profiles) /\ Len(profiles) \in Nat
        BY <1>2
      <4>2. \A i \in 1..Len(profiles) : profiles[i] \in ProfileRecord
        BY <1>2
      <4> QED BY <3>2, <4>1, <4>2
    <3> QED BY <2>1, <3>1, <3>2 DEF SaveProfile
  <2>2. CASE RemoveProfile(record.id)
    BY <1>2, <2>2, RemoveAtIs DEF RemoveProfile
  <2> QED BY <2>1, <2>2
<1> QED BY <1>1, <1>3 DEF PlanInv, PlanIsPicked

LEMMA PrepareKeeps == ASSUME PlanInv, NEW core \in Core, Prepare(core) PROVE PlanInv'
<1> DEFINE plan == [core |-> core, runtime |-> RuntimeFor(core), profile |-> Profile(core),
                    game |-> games[1], firmware |-> firmware]
<1>1. /\ left = <<>> /\ games # <<>> /\ (core \in NeedsFirmware => firmware # {})
      /\ launch' = plan /\ agreed' = Nothing
      /\ UNCHANGED <<left, games, firmware, profiles>>
  BY DEF Prepare, On
<1>2. games \in Seq(GameFile)
  BY DEF PlanInv
<1>3. 1 \in DOMAIN games
  BY <1>1, <1>2
<1>4. plan.profile.trust # "unverified"
  BY ProfileIsTrusted
<1>5. PlanIsPicked'
  BY <1>1, <1>3, <1>4 DEF PlanInv, PlanIsPicked
<1> QED BY <1>1, <1>5 DEF PlanInv

LEMMA RequestSteps == ASSUME PlanInv, Tick \/ PrepareNative \/ Reload PROVE PlanInv'
<1>1. CASE Tick
  <2>1. left = <<>> /\ agreed' \in {launch, Nothing} /\ UNCHANGED <<left, games, firmware, profiles, launch>>
    BY <1>1 DEF Tick, On
  <2> QED BY <2>1 DEF PlanInv, PlanIsPicked
<1>2. CASE PrepareNative
  <2>1. /\ left' = <<launch, agreed>> /\ agreed # Nothing /\ launch.runtime = "native"
        /\ UNCHANGED <<games, firmware, profiles, launch, agreed>>
    BY <1>2 DEF PrepareNative, NativeReady
  <2> QED BY <2>1 DEF PlanInv, PlanIsPicked
<1>3. CASE Reload
  <2>1. /\ games' = <<>> /\ firmware' = {} /\ launch' = Nothing /\ agreed' = Nothing /\ left' = <<>>
        /\ UNCHANGED profiles
    BY <1>3 DEF Reload
  <2> QED BY <2>1 DEF PlanInv, PlanIsPicked
<1> QED BY <1>1, <1>2, <1>3

LEMMA PlanGoesOn == PlanInv /\ [PlanNext]_planVars => PlanInv'
<1> SUFFICES ASSUME PlanInv, PlanNext \/ UNCHANGED planVars PROVE PlanInv'
  OBVIOUS
<1>1. CASE UNCHANGED planVars
  BY <1>1, LibrarySteps
<1>2. CASE PlanNext
  BY <1>2, LibrarySteps, PickSteps, ProfileSteps, PrepareKeeps, RequestSteps DEF PlanNext
<1> QED BY <1>1, <1>2

LEMMA PlanIsAsked == PlanInv => LaunchIsAsked
BY DEF PlanInv, LaunchIsAsked, RequestIsAgreed

-----------------------------------------------------------------------------
(***************************************************************************)
(* The adapters.                                                           *)
(***************************************************************************)
\* Among some places one has the highest number, and is the first of those that have it.
LEMMA HighestIs ==
  ASSUME NEW length \in Nat, NEW places \in SUBSET (1..length), places # {},
         NEW age \in [places -> Nat]
  PROVE  \E i \in places : \A j \in places : age[j] < age[i] \/ (age[j] = age[i] /\ i <= j)
<1> DEFINE Beats(i, j) == age[j] < age[i] \/ (age[j] = age[i] /\ i <= j)
           upto(n) == places \cap (1..n)
           Best(n) == \E i \in upto(n) : \A j \in upto(n) : Beats(i, j)
           without == {n \in Nat : upto(n) # {} /\ ~Best(n)}
<1>1. \A i \in places : age[i] \in Nat /\ i \in Nat /\ Beats(i, i)
  OBVIOUS
<1>2. without = {}
  <2> SUFFICES ASSUME without # {} PROVE FALSE
    OBVIOUS
  <2>1. PICK n \in without : \A m \in without : n <= m
    <3>1. without \in SUBSET Nat
      OBVIOUS
    <3> HIDE DEF without
    <3> QED BY <3>1, LeastNumber
  <2>2. n \in Nat /\ upto(n) # {} /\ ~Best(n)
    BY <2>1
  <2>3. n # 0
    BY <2>2
  <2>4. n - 1 \in Nat /\ n - 1 \notin without
    BY <2>1, <2>2, <2>3, SMTT(60)
  <2>5. \A j \in upto(n) : j = n \/ j \in upto(n - 1)
    BY <2>2
  <2>6. \A j \in upto(n - 1) : j \in upto(n) /\ j < n
    BY <2>2, <1>1
  <2>7. CASE n \notin places
    <3>1. upto(n) = upto(n - 1)
      BY <2>5, <2>6, <2>7
    <3> QED BY <2>2, <2>4, <3>1
  <2>8. CASE n \in places /\ upto(n - 1) = {}
    <3>1. n \in upto(n) /\ \A j \in upto(n) : j = n
      BY <2>2, <2>3, <2>5, <2>8
    <3>2. Beats(n, n)
      BY <1>1, <2>8
    <3> QED BY <2>2, <3>1, <3>2
  <2>9. CASE n \in places /\ upto(n - 1) # {}
    <3>1. PICK i \in upto(n - 1) : \A j \in upto(n - 1) : Beats(i, j)
      BY <2>4, <2>9
    <3>2. i \in upto(n) /\ n \in upto(n) /\ i < n /\ age[i] \in Nat /\ age[n] \in Nat
      BY <1>1, <2>2, <2>3, <2>6, <2>9
    <3>3. CASE Beats(i, n)
      <4>1. \A j \in upto(n) : Beats(i, j)
        BY <2>5, <3>1, <3>3
      <4> QED BY <2>2, <3>2, <4>1
    <3>4. CASE ~Beats(i, n)
      <4>1. age[i] < age[n]
        <5>1. i \in Nat /\ n \in Nat /\ i <= n
          BY <1>1, <2>2, <3>1, <3>2
        <5>2. age[i] \in Nat /\ age[n] \in Nat
          BY <3>2, Zenon
        <5>3. ~(age[n] < age[i])
          BY <3>4
        <5>4. age[n] # age[i]
          BY <3>4, <5>1
        <5> HIDE DEF Beats, Best, without
        <5>5. \A a, b \in Nat : ~(b < a) /\ b # a => a < b
          OBVIOUS
        <5> QED BY <5>2, <5>3, <5>4, <5>5
      <4>2. ASSUME NEW j \in upto(n - 1) PROVE Beats(n, j)
        <5>1. Beats(i, j)
          BY <3>1, <4>2, Zenon
        <5>2. age[j] \in Nat
          <6>1. j \in places
            OBVIOUS
          <6> QED BY <1>1, <6>1, Zenon
        <5> QED BY <3>2, <4>1, <5>1, <5>2
      <4>3. \A j \in upto(n) : Beats(n, j)
        BY <1>1, <2>5, <2>9, <4>2
      <4> QED BY <2>2, <3>2, <4>3
    <3> QED BY <3>3, <3>4
  <2> QED BY <2>7, <2>8, <2>9
<1>3. upto(length) = places
  OBVIOUS
<1>4. length \notin without
  BY <1>2
<1> QED BY <1>3, <1>4

\* No place of the feed is newer than the one that is picked.
LEMMA NewestIs ==
  ASSUME feed' \in Seq(Manifest), NEW places, places \subseteq DOMAIN feed', places # {}
  PROVE  /\ Newest(places) \in places
         /\ \A j \in places : feed'[j].version <= feed'[Newest(places)].version
<1> DEFINE age == [i \in places |-> feed'[i].version]
           Beats(i, j) == \/ feed'[j].version < feed'[i].version
                          \/ feed'[j].version = feed'[i].version /\ i <= j
<1>1. \A i \in places : feed'[i].version \in Nat
  BY AdaptersAssumption
<1>2. age \in [places -> Nat] /\ places \in SUBSET (1..Len(feed')) /\ Len(feed') \in Nat
  BY <1>1
<1>3. \A i \in places : age[i] = feed'[i].version
  OBVIOUS
<1>4. \E i \in places : \A j \in places : age[j] < age[i] \/ (age[j] = age[i] /\ i <= j)
  <2> HIDE DEF age
  <2> QED BY <1>2, HighestIs
<1>5. \E i \in places : \A j \in places : Beats(i, j)
  BY <1>3, <1>4
<1>6. Newest(places) \in places /\ \A j \in places : Beats(Newest(places), j)
  BY <1>5 DEF Newest
<1> QED BY <1>1, <1>6

\* What a row offers is newer than what is installed, and than all that anyone may use.
Newer(offer) ==
  /\ offer.from \in Nat /\ offer.manifest.version > offer.from
  /\ \A i \in DOMAIN feed :
       /\ feed[i].id = TheCore /\ feed[i].trust = "signed" /\ feed[i].offered
       /\ "universal" \in feed[i].platforms
       => feed[i].version <= offer.manifest.version
OfferHolds(offer) ==
  offer # NoOffer =>
    /\ offer.manifest \in Manifest
    /\ offer.status # "install-available" => Newer(offer)
PagesInv ==
  /\ records \in Seq(Manifest) /\ feed \in Seq(Manifest) /\ checking \in Seq(Manifest \cup {NoOffer})
  /\ pending \in Manifest \cup {NoOffer}
  /\ feed = <<>> => release = NoOffer /\ asked = NoOffer
  /\ OfferHolds(release) /\ RequestIsInstallable /\ SessionIsVerified

LEMMA PagesBegin == PagesInit => PagesInv
BY AdaptersAssumption
   DEF PagesInit, PagesInv, OfferHolds, RequestIsInstallable, SessionIsVerified, Embedded

LEMMA FirstIs ==
  ASSUME NEW list \in Seq(Manifest), Of(list) # {} PROVE First(list) \in Manifest
<1>1. Of(list) \in SUBSET Nat /\ Of(list) \subseteq 1..Len(list)
  BY DEF Of
<1>2. \E i \in Of(list) : \A j \in Of(list) : i <= j
  BY <1>1, LeastNumber
<1> QED BY <1>1, <1>2 DEF First

LEMMA RebuildKeeps ==
  ASSUME PagesInv, Rebuild, records' \in Seq(Manifest), feed' \in Seq(Manifest),
         feed # <<>> => feed' = feed
  PROVE  OfferHolds(release)' /\ (feed' = <<>> => release' = NoOffer)
<1>1. CASE release' = release
  <2>1. CASE feed' = feed
    BY <1>1, <2>1 DEF PagesInv, OfferHolds, Newer
  <2>2. CASE feed = <<>>
    BY <1>1, <2>2 DEF PagesInv, OfferHolds
  <2> QED BY <2>1, <2>2
<1>2. CASE release' = NoOffer
  BY <1>2 DEF OfferHolds
<1>3. CASE Of(feed') # {} /\ release' = Offered("install-available", 0, First(feed'), "ready")
  <2>1. feed' # <<>>
    BY <1>3 DEF Of
  <2> QED BY <1>3, <2>1, FirstIs DEF OfferHolds, Offered
<1>4. CASE /\ Of(feed') # {} /\ Of(records') # {} /\ release' = UpdatePlan(First(records'))
           /\ release' # NoOffer
  <2> DEFINE current == First(records')
             newer == {i \in Of(feed') : feed'[i].version > current.version /\ Usable(feed'[i])}
             selected == feed'[Newest(newer)]
  <2>1. current \in Manifest /\ current.version \in Nat
    BY <1>4, FirstIs, AdaptersAssumption
  <2>2. newer # {} /\ release' = Offered("update-available", current.version, selected,
                                         Evaluate(selected, platform', unsigned'))
    BY <1>4 DEF UpdatePlan
  <2>3. newer \subseteq DOMAIN feed'
    BY DEF Of
  <2>4. feed' \in Seq(Manifest) /\ feed' # <<>>
    BY <1>4 DEF Of
  <2> HIDE DEF current
  <2>5. Newest(newer) \in newer /\ \A j \in newer : feed'[j].version <= selected.version
    <3> HIDE DEF newer
    <3> QED BY <2>2, <2>3, <2>4, NewestIs
  <2>6. selected \in Manifest /\ selected.version \in Nat /\ selected.version > current.version
    BY <2>3, <2>4, <2>5, AdaptersAssumption
  <2>7. ASSUME NEW i \in DOMAIN feed', feed'[i].id = TheCore, feed'[i].trust = "signed",
               feed'[i].offered, "universal" \in feed'[i].platforms
        PROVE  feed'[i].version <= selected.version
    <3>1. Usable(feed'[i]) /\ feed'[i].version \in Nat /\ i \in Of(feed')
      BY <2>4, <2>7, AdaptersAssumption DEF Usable, Evaluate, Fits, Of
    <3>2. CASE feed'[i].version > current.version
      BY <2>5, <3>1, <3>2
    <3>3. CASE ~(feed'[i].version > current.version)
      BY <2>1, <2>6, <3>1, <3>3
    <3> QED BY <3>2, <3>3
  <2> HIDE DEF newer, selected
  <2>8. release'.from = current.version /\ release'.manifest = selected
    BY <2>2 DEF Offered
  <2> QED BY <2>1, <2>4, <2>6, <2>7, <2>8 DEF OfferHolds, Newer
<1> QED BY <1>1, <1>2, <1>3, <1>4 DEF Rebuild, Row

LEMMA ManagerKeeps == ASSUME PagesInv, ManagerNext PROVE PagesInv'
<1>1. ASSUME asked' = asked, feed # <<>> => feed' = feed
      PROVE  RequestIsInstallable' /\ (feed' = <<>> => asked' = NoOffer)
  <2>1. CASE feed' = feed
    BY <1>1, <2>1 DEF PagesInv, RequestIsInstallable, Of
  <2>2. CASE feed = <<>>
    BY <1>1, <2>2 DEF PagesInv, RequestIsInstallable
  <2> QED BY <1>1, <2>1, <2>2
<1>2. ASSUME UNCHANGED managerOnly
      PROVE  /\ SessionIsVerified' /\ checking' \in Seq(Manifest \cup {NoOffer})
             /\ pending' \in Manifest \cup {NoOffer}
  BY <1>2 DEF managerOnly, PagesInv, SessionIsVerified
<1>3. CASE \/ \E bundle \in Bundle : Import(bundle)
           \/ \E target \in Platform : Choose(target)
           \/ Allow
           \/ \E bundle \in Bundle, releases \in Feed, allowed \in BOOLEAN :
                LoadManager(bundle, releases, allowed)
  <2>1. /\ Rebuild /\ asked' = asked /\ UNCHANGED managerOnly
        /\ records' \in Seq(Manifest) /\ feed' \in Seq(Manifest)
        /\ feed # <<>> => feed' = feed
    BY <1>3, AdaptersAssumption DEF Import, Choose, Allow, LoadManager, PagesInv
  <2> QED BY <1>1, <1>2, <2>1, RebuildKeeps DEF PagesInv
<1>4. CASE AskInstall
  <2>1. release # NoOffer /\ Installable(release) /\ release' = release /\ records' = records
        /\ feed' = feed /\ UNCHANGED managerOnly
    BY <1>4 DEF AskInstall
  <2>2. /\ asked'.manifest = release.manifest /\ asked'.platform = platform
        /\ asked'.from = IF release.status = "install-available" THEN release.manifest.version
                         ELSE release.from
    BY <1>4 DEF AskInstall
  <2>3. release.manifest.version \in Nat
    BY <2>1, AdaptersAssumption DEF PagesInv, OfferHolds
  <2>4. RequestIsInstallable'
    <3>1. asked'.manifest.trust = "signed" /\ asked'.manifest.artifact
          /\ Fits(asked'.manifest, asked'.platform)
      BY <2>1, <2>2 DEF Installable
    <3>2. CASE release.status = "install-available"
      BY <2>2, <2>3, <3>1, <3>2 DEF RequestIsInstallable
    <3>3. CASE release.status # "install-available"
      <4>1. Newer(release) /\ asked'.from = release.from
        BY <2>1, <2>2, <3>3 DEF PagesInv, OfferHolds
      <4> QED BY <2>1, <2>2, <2>3, <3>1, <4>1 DEF RequestIsInstallable, Newer, Of
    <3> QED BY <3>2, <3>3
  <2>5. OfferHolds(release)'
    BY <2>1 DEF PagesInv, OfferHolds, Newer
  <2> QED BY <1>2, <2>1, <2>4, <2>5 DEF PagesInv
<1> QED BY <1>3, <1>4 DEF ManagerNext

\* What the loading of adapters leaves alone.
LEMMA LoaderLeaves ==
  ASSUME PagesInv, UNCHANGED loaderOnly
  PROVE  /\ records' \in Seq(Manifest) /\ feed' \in Seq(Manifest)
         /\ feed' = <<>> => release' = NoOffer /\ asked' = NoOffer
         /\ OfferHolds(release)' /\ RequestIsInstallable'
BY DEF PagesInv, loaderOnly, OfferHolds, Newer, RequestIsInstallable, Of

LEMMA LoaderKeeps == ASSUME PagesInv, LoaderNext PROVE PagesInv'
<1> DEFINE Queue == Seq(Manifest \cup {NoOffer})
<1>1. CASE (\E manifest \in Manifest : ChooseManifest(manifest)) \/ NotAManifest
  <2>1. /\ UNCHANGED <<loaderOnly, embedded>> /\ checking' = checking /\ active' = active
        /\ pending' \in Manifest \cup {NoOffer}
        /\ pending' # NoOffer => enabled'
    BY <1>1 DEF ChooseManifest, NotAManifest, loaderOnly
  <2> QED BY <2>1, LoaderLeaves DEF PagesInv, SessionIsVerified
<1>2. CASE Load
  <2>1. UNCHANGED <<loaderOnly, embedded>> /\ active' = active /\ pending' = pending
        /\ checking' = Append(checking, pending)
    BY <1>2 DEF Load, loaderOnly
  <2>2. checking' \in Queue /\ checking' # <<>>
    BY <2>1 DEF PagesInv
  <2> QED BY <2>1, <2>2, LoaderLeaves DEF PagesInv, SessionIsVerified
<1>3. ASSUME NEW i \in DOMAIN checking PROVE RemoveAt(checking, i) \in Queue
  BY RemoveAtIs DEF PagesInv
<1>4. CASE \E i \in DOMAIN checking : Verified(i)
  <2>1. PICK i \in DOMAIN checking : Verified(i)
    BY <1>4
  <2>2. /\ UNCHANGED <<loaderOnly, embedded>> /\ active' = active \cup {checking[i]}
        /\ pending' = NoOffer
        /\ checking' \in Queue
        /\ checking[i].trust = "signed" /\ checking[i].genuine
        /\ \A other \in active : other.id # checking[i].id
    BY <1>3, <2>1 DEF Verified, Genuine, Evaluate, Taken, loaderOnly
  <2>3. SessionIsVerified'
    BY <2>2 DEF PagesInv, SessionIsVerified
  <2> QED BY <2>2, <2>3, LoaderLeaves DEF PagesInv
<1>5. CASE \E i \in DOMAIN checking : Refused(i)
  <2>1. PICK i \in DOMAIN checking : Refused(i)
    BY <1>5
  <2>2. /\ UNCHANGED <<loaderOnly, embedded>> /\ active' = active /\ pending' = pending
        /\ enabled' = (pending # NoOffer) /\ checking' \in Queue
    BY <1>3, <2>1 DEF Refused, loaderOnly
  <2>3. pending' # NoOffer => enabled'
    BY <2>2
  <2>4. SessionIsVerified'
    BY <2>2, <2>3 DEF PagesInv, SessionIsVerified
  <2> QED BY <2>2, <2>4, LoaderLeaves DEF PagesInv
<1> QED BY <1>1, <1>2, <1>4, <1>5 DEF LoaderNext

LEMMA PagesGoOn == PagesInv /\ [PagesNext]_adapterVars => PagesInv'
<1>1. ASSUME PagesInv, UNCHANGED adapterVars PROVE PagesInv'
  BY <1>1 DEF PagesInv, adapterVars, OfferHolds, Newer, RequestIsInstallable, Of, SessionIsVerified
<1> QED BY <1>1, ManagerKeeps, LoaderKeeps DEF PagesNext

-----------------------------------------------------------------------------
(***************************************************************************)
(* The services that are shown.                                            *)
(***************************************************************************)
Answers == [scope : Scopes, site : Site, as : {"allowed", "blocked"}]
About(scope, site) == {i \in DOMAIN answers : answers[i].scope = scope /\ answers[i].site = site}

\* A decision is the last answer about its key, and there is none where nothing was answered.
Recalled(key) ==
  IF decisions[key] = "none" THEN About(key[1], key[2]) = {}
  ELSE
    \E i \in About(key[1], key[2]) :
      answers[i].as = decisions[key] /\ \A j \in About(key[1], key[2]) : j <= i
AnswersInv ==
  /\ answers \in Seq(Answers) /\ decisions \in [Keys -> {"none", "allowed", "blocked"}]
  /\ \A q \in dialogs : q.key \in Keys /\ q.key = <<q.scope, q.key[2]>>
  /\ \A key \in Keys : Recalled(key)
  /\ SilentAsAnswered

\* Who signs in where.
Views == [jar : Partitions, profile : UserProfile, kept : BOOLEAN]
JarsInv ==
  /\ jars \in [Partitions -> SUBSET UserProfile]
  /\ view # Nil => /\ view \in Views
                   /\ view.jar # Shared => view.jar[2] = view.profile
  /\ SignInsStayApart

\* A clearing that has been past the shared partition left nothing there, but for what came since.
Swept(clearing) == Shared \notin clearing.left /\ ~clearing.failed => jars[Shared] = {} \/ fresh
ClearingInv ==
  /\ clearings \in Seq([left : SUBSET ProviderPartitions, failed : BOOLEAN])
  /\ \A i \in DOMAIN clearings : Swept(clearings[i])
  /\ ClearedIsClear

SitesInv == AnswersInv /\ JarsInv /\ ClearingInv

LEMMA PartitionIs ==
  ASSUME NEW o \in Options
  PROVE  /\ Partition(o) \in Partitions
         /\ Partition(o) # Shared => Partition(o)[2] = o.profile
         /\ ~o.kept => Partition(o) \in InMemory
<1>0. \A kind, who : <<kind, who>>[2] = who
  OBVIOUS
<1>1. Partition(o) \in Partitions
  BY DEF Partitions
<1>2. ~o.kept => Partition(o) = <<"in memory", o.profile>>
  BY DEF Partition
<1>3. ASSUME Partition(o) # Shared PROVE Partition(o)[2] = o.profile
  <2>1. CASE ~o.kept
    <3>1. Partition(o) = <<"in memory", o.profile>>
      BY <1>2, <2>1, Zenon
    <3> QED BY <3>1, <1>0, Zenon
  <2>2. CASE o.kept /\ o.isolated
    <3>1. Partition(o) = <<"profile and account", o.profile>>
      BY <2>2 DEF Partition, Options
    <3> QED BY <3>1, <1>0, Zenon
  <2>3. CASE o.kept /\ ~o.isolated
    BY <1>3, <2>3 DEF Partition
  <2> QED BY <2>1, <2>2, <2>3, Zenon
<1>4. ASSUME ~o.kept PROVE Partition(o)[1] = "in memory"
  <2>1. \A kind, who : <<kind, who>>[1] = kind
    OBVIOUS
  <2> QED BY <1>2, <1>4, <2>1, Zenon
<1> QED BY <1>1, <1>3, <1>4 DEF InMemory

LEMMA SharedIsOne == Shared \in Partitions
<1>1. PICK p \in UserProfile : TRUE
  BY SitesAssumption
<1> DEFINE o == [profile |-> p, isolated |-> FALSE, kept |-> TRUE]
<1>2. o \in Options /\ Partition(o) = Shared
  BY <1>1 DEF Options, Partition
<1> QED BY <1>2 DEF Partitions

LEMMA SitesBegin == SitesInit => SitesInv
<1> SUFFICES ASSUME SitesInit PROVE SitesInv
  OBVIOUS
<1>1. AnswersInv
  <2>1. NoDecision \in [Keys -> {"none", "allowed", "blocked"}]
        /\ \A key \in Keys : NoDecision[key] = "none"
    BY DEF NoDecision
  <2>2. decisions = NoDecision /\ dialogs = {} /\ answers = <<>> /\ silent = Nil
    BY DEF SitesInit
  <2>3. SilentAsAnswered
    BY <2>2 DEF SilentAsAnswered
  <2>4. \A key \in Keys : Recalled(key)
    BY <2>1, <2>2 DEF Recalled, About
  <2> QED BY <2>1, <2>2, <2>3, <2>4 DEF AnswersInv
<1>2. JarsInv
  BY DEF SitesInit, JarsInv, SignInsStayApart
<1>3. ClearingInv
  <2>1. clearings = <<>> /\ ~cleared
    BY DEF SitesInit
  <2>2. \A i \in DOMAIN clearings : FALSE
    BY <2>1
  <2>3. clearings \in Seq([left : SUBSET ProviderPartitions, failed : BOOLEAN])
    BY <2>1
  <2> QED BY <2>1, <2>2, <2>3 DEF ClearingInv, ClearedIsClear
<1> QED BY <1>1, <1>2, <1>3 DEF SitesInv

\* Steps that are not about answers, not about sign-ins, not about clearings.
LEMMA AnswersStay ==
  ASSUME AnswersInv, UNCHANGED <<decisions, answers>>, dialogs' \subseteq dialogs,
         silent' = Nil \/ UNCHANGED <<silent, prompts>>
  PROVE  AnswersInv'
<1>1. \A key \in Keys : Recalled(key)'
  BY DEF AnswersInv, Recalled, About
<1>2. SilentAsAnswered'
  <2>1. CASE silent' = Nil
    BY <2>1 DEF SilentAsAnswered
  <2>2. CASE UNCHANGED <<silent, prompts>>
    <3>1. SilentAsAnswered /\ answers' = answers /\ silent' = silent /\ prompts' = prompts
      BY <2>2 DEF AnswersInv
    <3> QED BY <3>1 DEF SilentAsAnswered
  <2> QED BY <2>1, <2>2
<1> QED BY <1>1, <1>2 DEF AnswersInv

LEMMA JarsStay ==
  ASSUME JarsInv, jars' = jars, view' \in {view, Nil}
  PROVE  JarsInv'
BY DEF JarsInv, SignInsStayApart

LEMMA ClearingStays ==
  ASSUME ClearingInv, UNCHANGED <<jars, clearings, fresh>>, cleared' \in {FALSE, cleared}
  PROVE  ClearingInv'
<1>1. \A i \in DOMAIN clearings' : Swept(clearings[i])'
  BY DEF ClearingInv, Swept
<1>2. ClearedIsClear'
  BY DEF ClearingInv, ClearedIsClear
<1> QED BY <1>1, <1>2 DEF ClearingInv

\* A request is about a key, and what nobody is asked about is as the user answered last.
LEMMA RequestKeeps == ASSUME SitesInv, NEW site \in Site, Request(site) PROVE SitesInv'
<1>1. /\ UNCHANGED <<prompts, view, jars, decisions, clearings, answers, fresh>>
      /\ cleared' = FALSE
  BY DEF Request
<1>2. PICK scope \in {Application} \cup (IF view = Nil THEN {} ELSE {view.jar}) :
        \/ /\ Decision(<<scope, site>>) # "none"
           /\ silent' = [scope |-> scope, site |-> site, as |-> Decision(<<scope, site>>)]
           /\ dialogs' = dialogs
        \/ /\ Decision(<<scope, site>>) = "none"
           /\ silent' = [scope |-> scope, site |-> site, as |-> "blocked"]
           /\ dialogs' = dialogs
        \/ /\ dialogs' = dialogs \cup {[n |-> questions, key |-> <<scope, site>>, scope |-> scope]}
           /\ silent' = Nil
  BY DEF Request, Key, Unasked
<1> DEFINE key == <<scope, site>>
<1>3. key \in Keys /\ key[1] = scope /\ key[2] = site
  <2>1. scope = Application \/ (view # Nil /\ scope = view.jar)
    BY <1>2
  <2>2. scope \in Scopes
    <3>1. view # Nil => view.jar \in Partitions
      BY DEF SitesInv, JarsInv, Views
    <3> QED BY <2>1, <3>1 DEF Scopes
  <2> QED BY <2>2 DEF Keys
<1>4. \A k \in Keys : Recalled(k)'
  BY <1>1 DEF SitesInv, AnswersInv, Recalled, About
<1>5. \A q \in dialogs' : q.key \in Keys /\ q.key = <<q.scope, q.key[2]>>
  BY <1>2, <1>3 DEF SitesInv, AnswersInv
<1>6. SilentAsAnswered'
  <2>1. CASE silent' = Nil
    BY <2>1 DEF SilentAsAnswered
  <2>2. CASE silent' = [scope |-> scope, site |-> site, as |-> Decision(key)] /\ Decision(key) # "none"
    <3>1. silent'.scope = scope /\ silent'.site = site /\ silent'.as = Decision(key)
      BY <2>2
    <3>2. CASE prompts = "Block by default"
      BY <1>1, <3>1, <3>2 DEF SilentAsAnswered, Decision
    <3>3. CASE prompts # "Block by default"
      <4>1. Decision(key) = decisions[key]
        BY <2>2, <3>3 DEF Decision
      <4>2. Recalled(key)
        BY <1>3 DEF SitesInv, AnswersInv
      <4>3. PICK i \in About(scope, site) :
              answers[i].as = decisions[key] /\ \A j \in About(scope, site) : j <= i
        BY <1>3, <2>2, <4>1, <4>2 DEF Recalled
      <4> QED BY <1>1, <3>1, <4>1, <4>3 DEF SilentAsAnswered, About
    <3> QED BY <3>2, <3>3
  <2>3. CASE /\ silent' = [scope |-> scope, site |-> site, as |-> "blocked"]
             /\ Decision(key) = "none"
    <3>1. silent'.scope = scope /\ silent'.site = site /\ silent'.as = "blocked"
      BY <2>3
    <3>2. CASE prompts # "Ask per site"
      BY <1>1, <3>1, <3>2 DEF SilentAsAnswered
    <3>3. CASE prompts = "Ask per site"
      <4>1. decisions[key] = "none"
        BY <2>3, <3>3 DEF Decision
      <4>2. Recalled(key)
        BY <1>3 DEF SitesInv, AnswersInv
      <4>3. About(scope, site) = {}
        BY <1>3, <4>1, <4>2 DEF Recalled
      <4>4. {i \in DOMAIN answers' : answers'[i].scope = silent'.scope
                                      /\ answers'[i].site = silent'.site} = {}
        BY <1>1, <3>1, <4>3 DEF About
      <4> QED BY <3>1, <4>4 DEF SilentAsAnswered
    <3> QED BY <3>2, <3>3
  <2> QED BY <1>2, <2>1, <2>2, <2>3
<1>7. AnswersInv'
  BY <1>1, <1>4, <1>5, <1>6 DEF SitesInv, AnswersInv
<1> QED BY <1>1, <1>7, JarsStay, ClearingStays DEF SitesInv

\* The answer that is kept is the last one about its key.
LEMMA AnswerKeeps == ASSUME SitesInv, Answer PROVE SitesInv'
<1>1. UNCHANGED <<prompts, view, jars, clearings, fresh>> /\ silent' = Nil /\ cleared' = FALSE
  BY DEF Answer
<1>2. PICK q \in dialogs, answer \in {"allowed", "blocked"} :
        /\ dialogs' = dialogs \ {q}
        /\ decisions' = IF prompts = "Ask per site" THEN [decisions EXCEPT ![q.key] = answer]
                        ELSE decisions
        /\ answers' = IF prompts = "Ask per site"
                      THEN Append(answers, [scope |-> q.scope, site |-> q.key[2], as |-> answer])
                      ELSE answers
  BY DEF Answer, Remembered
<1>3. CASE prompts # "Ask per site"
  BY <1>1, <1>2, <1>3, AnswersStay, JarsStay, ClearingStays DEF SitesInv, AnswersInv
<1>4. CASE prompts = "Ask per site"
  <2> DEFINE key == q.key
             given == [scope |-> q.scope, site |-> key[2], as |-> answer]
             last == Len(answers) + 1
  <2>1. key \in Keys /\ key = <<q.scope, key[2]>>
    BY DEF SitesInv, AnswersInv
  <2>2. given \in Answers /\ key[1] = q.scope
    BY <2>1 DEF Keys, Answers
  <2>3. /\ answers' = Append(answers, given) /\ answers \in Seq(Answers)
        /\ decisions' = [decisions EXCEPT ![key] = answer]
        /\ decisions \in [Keys -> {"none", "allowed", "blocked"}]
    BY <1>2, <1>4 DEF SitesInv, AnswersInv
  <2> HIDE DEF given
  <2>4. /\ answers' \in Seq(Answers) /\ Len(answers') = last /\ answers'[last] = given
        /\ Len(answers) \in Nat
        /\ \A i \in DOMAIN answers : answers'[i] = answers[i] /\ i \in DOMAIN answers' /\ i < last
        /\ \A i \in DOMAIN answers' : i = last \/ i \in DOMAIN answers
    BY <2>2, <2>3
  <2>5. last \in DOMAIN answers' /\ \A i \in DOMAIN answers' : i <= last
    BY <2>4
  <2>6. given.scope = key[1] /\ given.site = key[2] /\ given.as = answer
    BY <2>2 DEF given
  <2>7. ASSUME NEW k \in Keys PROVE Recalled(k)'
    <3>1. CASE k = key
      <4>1. last \in About(key[1], key[2])' /\ answers'[last].as = answer
        BY <2>4, <2>5, <2>6 DEF About
      <4>2. decisions'[key] = answer
        BY <2>1, <2>3
      <4>3. \A j \in About(key[1], key[2])' : j <= last
        BY <2>5 DEF About
      <4> QED BY <3>1, <4>1, <4>2, <4>3 DEF Recalled
    <3>2. CASE k # key
      <4>1. decisions'[k] = decisions[k]
        BY <2>3, <3>2
      <4>2. k[1] # key[1] \/ k[2] # key[2]
        BY <2>1, <3>2 DEF Keys
      <4>3. About(k[1], k[2])' = About(k[1], k[2])
        BY <2>4, <2>6, <4>2 DEF About
      <4>4. \A i \in About(k[1], k[2]) : answers'[i] = answers[i]
        BY <2>4 DEF About
      <4>5. Recalled(k)
        BY DEF SitesInv, AnswersInv
      <4> QED BY <4>1, <4>3, <4>4, <4>5 DEF Recalled
    <3> QED BY <3>1, <3>2
  <2>8. \A p \in dialogs' : p.key \in Keys /\ p.key = <<p.scope, p.key[2]>>
    BY <1>2 DEF SitesInv, AnswersInv
  <2>9. SilentAsAnswered'
    BY <1>1 DEF SilentAsAnswered
  <2>10. decisions' \in [Keys -> {"none", "allowed", "blocked"}]
    BY <2>3
  <2>11. AnswersInv'
    BY <2>4, <2>7, <2>8, <2>9, <2>10 DEF AnswersInv
  <2> QED BY <1>1, <2>11, JarsStay, ClearingStays DEF SitesInv
<1> QED BY <1>3, <1>4

LEMMA ViewSteps ==
  ASSUME SitesInv, ApplyPolicy \/ OpenView \/ CloseView \/ DialogFails PROVE SitesInv'
<1>1. /\ UNCHANGED <<jars, decisions, clearings, answers, fresh>> /\ dialogs' \subseteq dialogs
      /\ silent' = Nil /\ cleared' = FALSE
  BY DEF ApplyPolicy, OpenView, CloseView, DialogFails
<1>2. AnswersInv' /\ ClearingInv'
  BY <1>1, AnswersStay, ClearingStays DEF SitesInv
<1>3. CASE view' \in {view, Nil}
  BY <1>1, <1>2, <1>3, JarsStay DEF SitesInv
<1>4. CASE OpenView
  <2>1. PICK o \in Options : view' = [jar |-> Partition(o), profile |-> o.profile, kept |-> o.kept]
    BY <1>4 DEF OpenView
  <2>2. view' \in Views /\ view'.jar = Partition(o) /\ view'.profile = o.profile /\ view'.kept = o.kept
    BY <2>1, PartitionIs DEF Views, Options
  <2>3. view'.jar # Shared => view'.jar[2] = view'.profile
    BY <2>2, PartitionIs
  <2>4. ~view'.kept => view'.jar \in InMemory
    BY <2>2, PartitionIs
  <2>5. SignInsStayApart'
    BY <1>1, <2>4 DEF SitesInv, JarsInv, SignInsStayApart
  <2>6. JarsInv'
    BY <1>1, <2>2, <2>3, <2>5 DEF SitesInv, JarsInv
  <2> QED BY <1>2, <2>6 DEF SitesInv
<1> QED BY <1>3, <1>4 DEF ApplyPolicy, CloseView, DialogFails

\* Whoever signs in does so where the view belongs.
LEMMA SignInKeeps == ASSUME SitesInv, SignIn PROVE SitesInv'
<1>1. /\ view # Nil /\ jars' = [jars EXCEPT ![view.jar] = @ \cup {view.profile}]
      /\ fresh' = (fresh \/ view.jar = Shared)
      /\ silent' = Nil /\ cleared' = FALSE
      /\ UNCHANGED <<view, decisions, dialogs, clearings, answers>>
  BY DEF SignIn
<1>2. /\ jars \in [Partitions -> SUBSET UserProfile] /\ view.jar \in Partitions
      /\ view.profile \in UserProfile /\ (view.jar # Shared => view.jar[2] = view.profile)
  BY <1>1 DEF SitesInv, JarsInv, Views
<1>3. AnswersInv'
  BY <1>1, AnswersStay DEF SitesInv
<1>4. JarsInv'
  <2>1. jars' \in [Partitions -> SUBSET UserProfile]
    BY <1>1, <1>2
  <2>2. ASSUME NEW jar \in Partitions \ {Shared} PROVE jars'[jar] \subseteq {jar[2]}
    <3>1. jars[jar] \subseteq {jar[2]}
      BY DEF SitesInv, JarsInv, SignInsStayApart
    <3>2. CASE jar = view.jar
      <4>1. jars'[jar] = jars[jar] \cup {view.profile} /\ jar[2] = view.profile
        BY <1>1, <1>2, <3>2
      <4> QED BY <3>1, <4>1
    <3>3. CASE jar # view.jar
      <4>1. jars'[jar] = jars[jar]
        BY <1>1, <1>2, <3>3
      <4> QED BY <3>1, <4>1
    <3> QED BY <3>2, <3>3
  <2> QED BY <1>1, <2>1, <2>2 DEF SitesInv, JarsInv, SignInsStayApart
<1>5. jars[Shared] = {} \/ fresh => jars'[Shared] = {} \/ fresh'
  <2>1. CASE view.jar = Shared
    <3>1. fresh'
      BY <1>1, <2>1
    <3> QED BY <3>1
  <2>2. CASE view.jar # Shared
    <3>1. jars'[Shared] = jars[Shared]
      BY <1>1, <1>2, <2>2, SharedIsOne
    <3>2. fresh => fresh'
      BY <1>1
    <3> QED BY <3>1, <3>2
  <2> QED BY <2>1, <2>2
<1>6. ASSUME NEW i \in DOMAIN clearings' PROVE Swept(clearings[i])'
  <2>1. clearings' = clearings /\ Swept(clearings[i])
    BY <1>1 DEF SitesInv, ClearingInv
  <2> QED BY <1>5, <2>1 DEF Swept
<1>7. ClearingInv'
  BY <1>1, <1>6 DEF SitesInv, ClearingInv, ClearedIsClear
<1> QED BY <1>3, <1>4, <1>7 DEF SitesInv

LEMMA ClearLoginsKeeps == ASSUME SitesInv, ClearLogins PROVE SitesInv'
<1> DEFINE begun == [left |-> ProviderPartitions, failed |-> FALSE]
<1>1. /\ view' = Nil /\ clearings' = Append(clearings, begun)
      /\ fresh' = (fresh /\ clearings # <<>>)
      /\ silent' = Nil /\ cleared' = FALSE /\ UNCHANGED <<prompts, jars, decisions, dialogs, answers>>
  BY DEF ClearLogins
<1>2. AnswersInv' /\ JarsInv'
  BY <1>1, AnswersStay, JarsStay DEF SitesInv
<1>3. /\ clearings \in Seq([left : SUBSET ProviderPartitions, failed : BOOLEAN])
      /\ begun \in [left : SUBSET ProviderPartitions, failed : BOOLEAN]
      /\ begun.left = ProviderPartitions /\ Shared \in begun.left
  BY DEF SitesInv, ClearingInv, ProviderPartitions
<1> HIDE DEF begun
<1>4. clearings' \in Seq([left : SUBSET ProviderPartitions, failed : BOOLEAN])
  BY <1>1, <1>3
<1>5. \A i \in DOMAIN clearings' : \/ clearings'[i] = begun
                                   \/ i \in DOMAIN clearings /\ clearings'[i] = clearings[i]
  BY <1>1, <1>3
<1>6. ASSUME NEW i \in DOMAIN clearings' PROVE Swept(clearings[i])'
  <2>1. CASE clearings'[i] = begun
    BY <1>3, <2>1 DEF Swept
  <2>2. CASE i \in DOMAIN clearings /\ clearings'[i] = clearings[i]
    <3>1. clearings # <<>> /\ Swept(clearings[i])
      BY <2>2 DEF SitesInv, ClearingInv
    <3>2. fresh => fresh'
      BY <1>1, <3>1
    <3> QED BY <1>1, <2>2, <3>1, <3>2 DEF Swept
  <2> QED BY <1>5, <2>1, <2>2
<1>7. ClearingInv'
  BY <1>1, <1>4, <1>6 DEF ClearingInv, ClearedIsClear
<1> QED BY <1>2, <1>7 DEF SitesInv

LEMMA PartitionIsClearKeeps == ASSUME SitesInv, PartitionIsClear PROVE SitesInv'
<1>1. /\ silent' = Nil /\ cleared' = FALSE
      /\ UNCHANGED <<prompts, view, decisions, dialogs, answers, fresh>>
  BY DEF PartitionIsClear
<1>2. PICK i \in DOMAIN clearings, ok \in BOOLEAN : \E jar \in clearings[i].left :
        /\ clearings' = [clearings EXCEPT ![i].left = @ \ {jar}, ![i].failed = @ \/ ~ok]
        /\ jars' = [j \in Partitions |-> IF j = jar /\ ok THEN {} ELSE jars[j]]
  BY DEF PartitionIsClear
<1>3. PICK jar \in clearings[i].left :
        /\ clearings' = [clearings EXCEPT ![i].left = @ \ {jar}, ![i].failed = @ \/ ~ok]
        /\ jars' = [j \in Partitions |-> IF j = jar /\ ok THEN {} ELSE jars[j]]
  BY <1>2
<1> DEFINE Clearing == [left : SUBSET ProviderPartitions, failed : BOOLEAN]
<1>4. clearings \in Seq(Clearing) /\ clearings[i] \in Clearing
  <2>1. clearings \in Seq(Clearing)
    BY DEF SitesInv, ClearingInv
  <2> HIDE DEF Clearing
  <2> QED BY <2>1
<1>5. clearings'[i].left = clearings[i].left \ {jar}
  BY <1>3, <1>4
<1>6. clearings'[i].failed <=> clearings[i].failed \/ ~ok
  BY <1>3, <1>4
<1>7. /\ clearings' \in Seq(Clearing) /\ DOMAIN clearings' = DOMAIN clearings
      /\ \A k \in DOMAIN clearings : k # i => clearings'[k] = clearings[k]
  BY <1>3, <1>4
<1>8. JarsInv'
  <2>1. jars' \in [Partitions -> SUBSET UserProfile]
    BY <1>3 DEF SitesInv, JarsInv
  <2>2. \A j \in Partitions : jars'[j] \subseteq jars[j]
    BY <1>3 DEF SitesInv, JarsInv
  <2>3. SignInsStayApart'
    BY <1>1, <2>2 DEF SitesInv, JarsInv, SignInsStayApart
  <2> QED BY <1>1, <2>1, <2>3 DEF SitesInv, JarsInv
<1>9. jars[Shared] = {} => jars'[Shared] = {}
  BY <1>3, SharedIsOne
<1>10. ASSUME NEW k \in DOMAIN clearings' PROVE Swept(clearings[k])'
  <2>1. Swept(clearings[k])
    BY <1>7 DEF SitesInv, ClearingInv
  <2>2. CASE k # i
    BY <1>1, <1>7, <1>9, <2>1, <2>2 DEF Swept
  <2>3. CASE k = i /\ (jar = Shared /\ ok)
    <3>1. jars'[Shared] = {}
      BY <1>3, <2>3, SharedIsOne
    <3> QED BY <3>1 DEF Swept
  <2>4. CASE k = i /\ ~(jar = Shared /\ ok)
    <3> SUFFICES ASSUME Shared \notin clearings'[i].left, ~clearings'[i].failed PROVE jars'[Shared] = {} \/ fresh'
      BY <1>7, <2>4 DEF Swept
    <3>1. ~clearings[i].failed /\ ok
      BY <1>6
    <3>2. Shared \notin clearings[i].left
      BY <1>5, <2>4, <3>1
    <3> QED BY <1>1, <1>9, <2>1, <2>4, <3>1, <3>2 DEF Swept
  <2> QED BY <2>2, <2>3, <2>4
<1>11. ClearingInv'
  BY <1>1, <1>7, <1>10 DEF ClearingInv, ClearedIsClear
<1>12. AnswersInv'
  BY <1>1, AnswersStay DEF SitesInv
<1> QED BY <1>8, <1>11, <1>12 DEF SitesInv

LEMMA LoginsAreClearKeeps ==
  ASSUME SitesInv, NEW i \in DOMAIN clearings, LoginsAreClear(i) PROVE SitesInv'
<1>1. /\ clearings[i].left = {} /\ clearings' = RemoveAt(clearings, i)
      /\ cleared' = ~clearings[i].failed /\ silent' = Nil
      /\ UNCHANGED <<prompts, view, jars, dialogs, fresh>>
  BY DEF LoginsAreClear, AllTried
<1>2. \/ UNCHANGED <<decisions, answers>>
      \/ decisions' = NoDecision /\ answers' = <<>>
  BY DEF LoginsAreClear
<1>3. JarsInv'
  BY <1>1, JarsStay DEF SitesInv
<1>4. AnswersInv'
  <2>1. CASE UNCHANGED <<decisions, answers>>
    BY <1>1, <2>1, AnswersStay DEF SitesInv
  <2>2. CASE decisions' = NoDecision /\ answers' = <<>>
    <3>1. decisions' \in [Keys -> {"none", "allowed", "blocked"}]
          /\ \A key \in Keys : decisions'[key] = "none"
      BY <2>2 DEF NoDecision
    <3>2. SilentAsAnswered'
      BY <1>1 DEF SilentAsAnswered
    <3>3. \A key \in Keys : Recalled(key)'
      BY <2>2, <3>1 DEF Recalled, About
    <3> QED BY <1>1, <2>2, <3>1, <3>2, <3>3 DEF SitesInv, AnswersInv
  <2> QED BY <1>2, <2>1, <2>2
<1>5. ClearingInv'
  <2> DEFINE Clearing == [left : SUBSET ProviderPartitions, failed : BOOLEAN]
  <2>1. clearings \in Seq(Clearing) /\ \A k \in DOMAIN clearings : Swept(clearings[k])
    BY DEF SitesInv, ClearingInv
  <2>2. /\ clearings' \in Seq(Clearing)
        /\ \A k \in DOMAIN clearings' : \E j \in DOMAIN clearings : clearings'[k] = clearings[j]
    <3> HIDE DEF Clearing
    <3>1. i \in 1..Len(clearings) /\ clearings \in Seq(Clearing)
      BY <2>1
    <3>2. /\ RemoveAt(clearings, i) \in Seq(Clearing)
          /\ \A k \in 1..Len(RemoveAt(clearings, i)) :
               \E j \in 1..Len(clearings) : RemoveAt(clearings, i)[k] = clearings[j]
      BY <3>1, RemoveAtIs
    <3> QED BY <1>1, <3>1, <3>2
  <2>3. \A k \in DOMAIN clearings' : Swept(clearings[k])'
    BY <1>1, <2>1, <2>2 DEF Swept
  <2>4. ASSUME cleared' PROVE jars[Shared] = {} \/ fresh
    <3>1. Swept(clearings[i]) /\ ~clearings[i].failed
      BY <1>1, <2>1, <2>4
    <3> QED BY <1>1, <3>1 DEF Swept
  <2>5. ClearedIsClear'
    BY <1>1, <2>4 DEF ClearedIsClear
  <2> QED BY <2>2, <2>3, <2>5 DEF ClearingInv
<1> QED BY <1>3, <1>4, <1>5 DEF SitesInv

LEMMA RestartKeeps == ASSUME SitesInv, Restart PROVE SitesInv'
<1>1. /\ view' = Nil /\ decisions' = NoDecision /\ dialogs' = {} /\ clearings' = <<>>
      /\ answers' = <<>> /\ silent' = Nil /\ cleared' = FALSE
      /\ jars' = [jar \in Partitions |-> IF jar \in InMemory THEN {} ELSE jars[jar]]
  BY DEF Restart
<1>2. AnswersInv'
  <2>1. decisions' \in [Keys -> {"none", "allowed", "blocked"}]
        /\ \A key \in Keys : decisions'[key] = "none"
    BY <1>1 DEF NoDecision
  <2>2. SilentAsAnswered'
    BY <1>1 DEF SilentAsAnswered
  <2>3. \A key \in Keys : Recalled(key)'
    BY <1>1, <2>1 DEF Recalled, About
  <2> QED BY <1>1, <2>1, <2>2, <2>3 DEF AnswersInv
<1>3. JarsInv'
  <2>1. jars' \in [Partitions -> SUBSET UserProfile]
    BY <1>1 DEF SitesInv, JarsInv
  <2>2. \A jar \in Partitions : jars'[jar] \subseteq jars[jar]
    BY <1>1 DEF SitesInv, JarsInv
  <2>3. SignInsStayApart'
    BY <1>1, <2>2 DEF SitesInv, JarsInv, SignInsStayApart
  <2> QED BY <1>1, <2>1, <2>3 DEF JarsInv
<1>4. ClearingInv'
  <2>1. clearings' \in Seq([left : SUBSET ProviderPartitions, failed : BOOLEAN])
    BY <1>1
  <2>2. \A i \in DOMAIN clearings' : FALSE
    BY <1>1
  <2> QED BY <1>1, <2>1, <2>2 DEF ClearingInv, ClearedIsClear
<1> QED BY <1>2, <1>3, <1>4 DEF SitesInv

LEMMA SitesGoOn == SitesInv /\ [SitesNext]_siteVars => SitesInv'
<1>1. ASSUME SitesInv, UNCHANGED siteVars PROVE SitesInv'
  <2>1. /\ UNCHANGED <<prompts, view, jars, decisions, dialogs, clearings, answers, silent, fresh>>
        /\ cleared' = cleared
    BY <1>1 DEF siteVars
  <2> QED BY <1>1, <2>1, AnswersStay, JarsStay, ClearingStays DEF SitesInv
<1> QED BY <1>1, ViewSteps, SignInKeeps, RequestKeeps, AnswerKeeps, ClearLoginsKeeps,
           PartitionIsClearKeeps, LoginsAreClearKeeps, RestartKeeps DEF SitesNext

LEMMA SitesAreApart == SitesInv => SitesAreKeptApart
BY DEF SitesInv, AnswersInv, JarsInv, ClearingInv, SitesAreKeptApart

-----------------------------------------------------------------------------
(***************************************************************************)
(* What the parts promise, each by itself and together.                    *)
(***************************************************************************)
\* Whatever order clicks, permission dialogs, answers of the service and endings of tracks come in,
\* a page that hosts captures nothing it was told to stop, and its gate is its pause
\* (browser-publisher, browser-host-runtime).
THEOREM HostsObey == BrowserSpec => [](CaptureObeys /\ StopFreesRole)
<1> QED BY HostingInit, HostingNext, HostingObeys, PTL DEF BrowserSpec

\* The player replays its present stream and no other, and a recording is whole and of one stream,
\* wherever streams, recorders and buttons come in between (capture, player).
THEOREM RecordingsStayWhole == CaptureSpec => [](ReplayIsOfStream /\ RecordingsAreWhole)
<1> QED BY CaptureBegins, CaptureGoesOn, CaptureIsWhole, PTL DEF CaptureSpec

\* A launch plan that is shown or sent to the host is of the files, the core and the runtime that
\* were picked, and the request is the plan that was agreed to (emulation, integration, host-launch).
THEOREM LaunchesAreAsked == PlanSpec => []LaunchIsAsked
<1> QED BY PlanBegins, PlanGoesOn, PlanIsAsked, PTL DEF PlanSpec

\* No request of an update is one that cannot be carried out or goes back, and nothing is added to
\* what is embedded in the page, or put in its place, that was not verified, for any feeds and
\* bundles (manager, install, browser-adapter-loader).
THEOREM AdaptersStayApproved == PagesSpec => []AdaptersAreApproved
<1>1. PagesInv => AdaptersAreApproved
  BY DEF PagesInv, AdaptersAreApproved
<1> QED BY <1>1, PagesBegin, PagesGoOn, PTL DEF PagesSpec

\* Sites are answered as the user answered them, sign-ins stay with their profile, and clearing
\* clears what is shared (main, provider-session, runtime-policy).
THEOREM SitesStayApart == SitesSpec => []SitesAreKeptApart
<1> QED BY SitesBegin, SitesGoOn, SitesAreApart, PTL DEF SitesSpec

PartsInv == HostingInv /\ CaptureInv /\ PlanInv /\ PagesInv /\ SitesInv

LEMMA PartsBegin == BrowserPartsInit => PartsInv
BY HostingInit, CaptureBegins, PlanBegins, PagesBegin, SitesBegin DEF BrowserPartsInit, PartsInv

\* A step of one part is a step of that part, and of no other.
LEMMA PartsGoOn == PartsInv /\ [BrowserPartsNext]_browserPartsVars => PartsInv'
<1> SUFFICES ASSUME PartsInv, [BrowserPartsNext]_browserPartsVars PROVE PartsInv'
  OBVIOUS
<1>1. [BrowserNext]_vars /\ [CaptureNext]_captureVars /\ [PlanNext]_planVars
      /\ [PagesNext]_adapterVars /\ [SitesNext]_siteVars
  <2>1. CASE UNCHANGED browserPartsVars
    BY <2>1 DEF browserPartsVars
  <2>2. CASE part = "host" /\ BrowserNext /\ Others("host")
    BY <2>2 DEF Others
  <2>3. CASE part = "recording" /\ CaptureNext /\ Others("recording")
    BY <2>3 DEF Others
  <2>4. CASE part = "launch" /\ PlanNext /\ Others("launch")
    BY <2>4 DEF Others
  <2>5. CASE part = "adapters" /\ ManagerNext /\ Others("adapters")
    BY <2>5 DEF Others, PagesNext
  <2>6. CASE part = "loads" /\ LoaderNext /\ Others("loads")
    BY <2>6 DEF Others, PagesNext
  <2>7. CASE part = "sites" /\ SitesNext /\ Others("sites")
    BY <2>7 DEF Others
  <2> QED BY <2>1, <2>2, <2>3, <2>4, <2>5, <2>6, <2>7 DEF BrowserPartsNext
<1> QED BY <1>1, HostingNext, CaptureGoesOn, PlanGoesOn, PagesGoOn, SitesGoOn DEF PartsInv

\* What is captured, recorded, launched and loaded is what was asked for, and what sites are told
\* is what their user said, for any bounds, files, manifests, feeds, profiles and sites.
THEOREM PartsDoAsAsked == BrowserPartsSpec => []DoneAsAsked
<1>1. PartsInv => DoneAsAsked
  BY HostingObeys, CaptureIsWhole, PlanIsAsked, SitesAreApart
     DEF PartsInv, DoneAsAsked, PagesInv, AdaptersAreApproved
<1> QED BY <1>1, PartsBegin, PartsGoOn, PTL DEF BrowserPartsSpec

\* The page gives up the host's role with its runtime: a connection that is left is the one of the
\* page's runtime or was replaced by a second start (browser-host-runtime).
THEOREM StoppedRolesAreFree == BrowserPartsSpec => []StopFreesRole
<1>1. PartsInv => StopFreesRole
  BY HostingObeys DEF PartsInv
<1> QED BY <1>1, PartsBegin, PartsGoOn, PTL DEF BrowserPartsSpec
=============================================================================
