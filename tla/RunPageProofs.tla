---------------------------- MODULE RunPageProofs ----------------------------
(***************************************************************************)
(* Safety of RunPage and EventStream, for every value of the constants:    *)
(* types, that the server closes a stream only after all it has stored,    *)
(* that the page never falls silent on a run under way, and that its       *)
(* timeline is the beginning of its run's log while no answer has strayed. *)
(*                                                                         *)
(* Types already need an invariant: a state is read off the log of a run   *)
(* that exists, so whatever the page follows, shows, asks for or has saved *)
(* must exist (Sound).  The other two invariants are about what may have   *)
(* happened while a call was unanswered; each is proved on top of Sound.   *)
(***************************************************************************)
EXTENDS RunPage, SequenceTheorems, TLAPS

-----------------------------------------------------------------------------
(* The invariant behind the types.  Each part is stated of a page p, a     *)
(* stream s and the log l.                                                 *)

Known(r, l) == l[r] # <<>>

\* The stream is of the run that is followed, and what it has in transit is in
\* the log; what is followed and shown exists, and only what is followed is
\* asked for.
SoundPage(p, s, l) ==
  /\ p \in Page /\ s \in Stream \cup {NoStream}
  /\ p.active = None => s = NoStream
  /\ s # NoStream => s.run = p.active
  /\ s # NoStream /\ s.received < s.cursor => s.cursor <= Len(l[s.run])
  /\ p.active # None => Known(p.active, l)
  /\ p.run # None => Known(p.run.run, l)
  /\ p.reconciling # None => p.active # None /\ p.reconciling >= 1
  /\ p.handling # None => p.active # None /\ p.handling >= 1

\* Every call but the creation of a run is about a run that exists.
SoundCall(c, l) ==
  /\ c \in Call \cup {NoCall}
  /\ c # NoCall /\ c.kind # "create" => Known(c.run, l) /\ c.at >= 1

SoundSession(saved, l) ==
  /\ saved \in Event \cup {None}
  /\ saved # None => Known(saved.run, l)

Sound ==
  /\ log \in [Runs -> Seq(RunState)]
  /\ SoundPage(page, stream, log)
  /\ calls \in [Slots -> Call \cup {NoCall}]
  /\ \A i \in Slots : SoundCall(calls[i], log)
  /\ SoundSession(session, log)
  /\ reloads \in 0..MaxReloads

-----------------------------------------------------------------------------
(* The log.                                                                *)

\* A run that exists is in some state.
LEMMA StateOfRun ==
  ASSUME log \in [Runs -> Seq(RunState)], NEW r \in Runs, Exists(r)
  PROVE  /\ Len(log[r]) \in Nat /\ Len(log[r]) >= 1
         /\ State(r) = log[r][Len(log[r])] /\ State(r) \in RunState
<1>1. log[r] \in Seq(RunState) /\ log[r] # <<>>
  BY DEF Exists
<1>2. Len(log[r]) \in Nat /\ Len(log[r]) >= 1
  BY <1>1, EmptySeq, LenProperties
<1>3. log[r][Len(log[r])] \in RunState
  BY <1>1, <1>2, ElementOfSeq
<1> QED
  BY <1>2, <1>3 DEF State, Last

\* A view is a view.
LEMMA ViewIsView ==
  ASSUME NEW r \in Runs, NEW s \in RunState
  PROVE  View(r, s) \in RunView /\ View(r, s).run = r /\ View(r, s).state = s
BY DEF View, RunView

\* A GET is answered with a view of its run, in a state the run has entered
\* since it was asked.
LEMMA AnswerIsView ==
  ASSUME log \in [Runs -> Seq(RunState)], NEW r \in Runs, NEW at \in Nat, at >= 1,
         NEW view \in Answers(r, at)
  PROVE  /\ view \in RunView /\ view.run = r
         /\ \E n \in at..Len(log[r]) : view.state = log[r][n]
<1>1. PICK n \in at..Len(log[r]) : view = View(r, log[r][n])
  BY DEF Answers
<1>2. Len(log[r]) \in Nat /\ log[r] \in Seq(RunState)
  BY LenProperties
<1>3. n \in 1..Len(log[r])
  BY <1>2
<1>4. log[r][n] \in RunState
  BY <1>2, <1>3, ElementOfSeq
<1> QED
  BY <1>1, <1>4, ViewIsView

\* A state the log goes on to.
LEMMA AllowedIsState ==
  ASSUME NEW s \in RunState, NEW to \in AllowedTransitions[s]
  PROVE  to \in RunState
BY DEF AllowedTransitions, RunState

\* A transition adds an allowed state to the log of a run that exists.
LEMMA TransitionAppends ==
  ASSUME log \in [Runs -> Seq(RunState)], NEW r \in Runs, Transition(r)
  PROVE  \E to \in RunState :
           /\ Exists(r) /\ to \in AllowedTransitions[State(r)]
           /\ log' = [log EXCEPT ![r] = Append(log[r], to)]
<1>1. Exists(r)
  BY DEF Transition
<1>2. State(r) \in RunState
  BY <1>1, StateOfRun
<1>3. PICK to \in AllowedTransitions[State(r)] :
        log' = [log EXCEPT ![r] = Append(log[r], to)]
  BY DEF Transition
<1> QED
  BY <1>1, <1>2, <1>3, AllowedIsState

\* l2 is a later log than l.
Later(l, l2) ==
  \A r \in Runs : /\ Len(l2[r]) >= Len(l[r])
                  /\ \A n \in 1..Len(l[r]) : l2[r][n] = l[r][n]

\* A log that grows stays a log, and what it was is its beginning.
LEMMA LogGrows ==
  ASSUME log \in [Runs -> Seq(RunState)], NEW r \in Runs,
         Transition(r) \/ (~ Exists(r) /\ Create(r))
  PROVE  log' \in [Runs -> Seq(RunState)] /\ Later(log, log')
<1>0. \A q \in Runs : log[q] \in Seq(RunState) /\ Len(log[q]) \in Nat
  BY LenProperties
<1>1. CASE Transition(r)
  <2>1. PICK to \in RunState : log' = [log EXCEPT ![r] = Append(log[r], to)]
    BY <1>1, TransitionAppends
  <2>2. /\ Append(log[r], to) \in Seq(RunState)
        /\ Len(Append(log[r], to)) = Len(log[r]) + 1
        /\ \A n \in 1..Len(log[r]) : Append(log[r], to)[n] = log[r][n]
    BY <1>0, AppendProperties
  <2>3. log' \in [Runs -> Seq(RunState)]
    BY <2>1, <2>2
  <2>4. ASSUME NEW q \in Runs
        PROVE  /\ Len(log'[q]) >= Len(log[q])
               /\ \A n \in 1..Len(log[q]) : log'[q][n] = log[q][n]
    <3>1. CASE q = r
      BY <3>1, <2>1, <2>2, <1>0
    <3>2. CASE q # r
      <4>1. log'[q] = log[q]
        BY <3>2, <2>1
      <4> QED
        BY <4>1, <1>0
    <3> QED
      BY <3>1, <3>2
  <2> QED
    BY <2>3, <2>4 DEF Later
<1>2. CASE ~ Exists(r) /\ Create(r)
  <2>1. log[r] = <<>> /\ log' = [log EXCEPT ![r] = <<"created">>]
    BY <1>2 DEF Exists, Create
  <2>2. <<"created">> \in Seq(RunState) /\ Len(<<"created">>) = 1
    BY DEF RunState
  <2>3. Len(log[r]) = 0
    BY <2>1
  <2>4. ASSUME NEW q \in Runs
        PROVE  /\ Len(log'[q]) >= Len(log[q])
               /\ \A n \in 1..Len(log[q]) : log'[q][n] = log[q][n]
    <3>1. CASE q = r
      BY <3>1, <2>1, <2>2, <2>3
    <3>2. CASE q # r
      <4>1. log'[q] = log[q]
        BY <3>2, <2>1
      <4> QED
        BY <4>1, <1>0
    <3> QED
      BY <3>1, <3>2
  <2> QED
    BY <2>1, <2>2, <2>4 DEF Later
<1> QED
  BY <1>1, <1>2

-----------------------------------------------------------------------------
(* Sound is kept by a log that grows, and by the effects of SetActive.     *)

\* A run that exists goes on existing.
LEMMA KnownStays ==
  ASSUME NEW l \in [Runs -> Seq(RunState)], NEW l2 \in [Runs -> Seq(RunState)],
         Later(l, l2), NEW r \in Runs, Known(r, l)
  PROVE  Known(r, l2)
<1>1. l[r] \in Seq(RunState) /\ l2[r] \in Seq(RunState) /\ l[r] # <<>>
  BY DEF Known
<1>2. Len(l[r]) >= 1 /\ Len(l2[r]) >= Len(l[r]) /\ Len(l[r]) \in Nat /\ Len(l2[r]) \in Nat
  BY <1>1, EmptySeq, LenProperties DEF Later
<1>3. Len(l2[r]) # 0
  BY <1>2
<1> QED
  BY <1>1, <1>3, EmptySeq DEF Known

\* What is sound for a log is sound for a later one.
LEMMA SoundStays ==
  ASSUME NEW l \in [Runs -> Seq(RunState)], NEW l2 \in [Runs -> Seq(RunState)],
         Later(l, l2)
  PROVE  /\ \A p, s : SoundPage(p, s, l) => SoundPage(p, s, l2)
         /\ \A c : SoundCall(c, l) => SoundCall(c, l2)
         /\ \A saved : SoundSession(saved, l) => SoundSession(saved, l2)
<1>1. \A r \in Runs : Known(r, l) => Known(r, l2)
  BY KnownStays
<1>2. ASSUME NEW p, NEW s, SoundPage(p, s, l)
      PROVE  SoundPage(p, s, l2)
  <2>1. p \in Page
    BY <1>2 DEF SoundPage
  <2>2. p.active \in Runs \cup {None} /\ p.run \in RunView \cup {None}
    BY <2>1 DEF Page
  <2>3. p.run # None => p.run.run \in Runs
    BY <2>2 DEF RunView
  <2>4. s # NoStream /\ s.received < s.cursor => s.cursor <= Len(l2[s.run])
    <3> SUFFICES ASSUME s # NoStream, s.received < s.cursor
                 PROVE  s.cursor <= Len(l2[s.run])
      OBVIOUS
    <3>1. s \in Stream /\ s.cursor <= Len(l[s.run])
      BY <1>2 DEF SoundPage
    <3>2. s.run \in Runs /\ s.cursor \in Nat
      BY <3>1 DEF Stream
    <3>3. Len(l[s.run]) \in Nat /\ Len(l2[s.run]) \in Nat /\ Len(l2[s.run]) >= Len(l[s.run])
      BY <3>2, LenProperties DEF Later
    <3> QED
      BY <3>1, <3>2, <3>3
  <2> QED
    BY <1>1, <1>2, <2>2, <2>3, <2>4 DEF SoundPage
<1>3. ASSUME NEW c, SoundCall(c, l)
      PROVE  SoundCall(c, l2)
  <2>1. c # NoCall => c.run \in Runs
    BY <1>3 DEF SoundCall, Call
  <2> QED
    BY <1>1, <1>3, <2>1 DEF SoundCall
<1>4. ASSUME NEW saved, SoundSession(saved, l)
      PROVE  SoundSession(saved, l2)
  BY <1>1, <1>4 DEF SoundSession, Event
<1> QED
  BY <1>2, <1>3, <1>4

\* A stream that is opened is a stream, of its run.
LEMMA OpenedIsStream ==
  ASSUME NEW r \in Runs, NEW after \in Nat
  PROVE  /\ Opened(r, after) \in Stream /\ Opened(r, after) # NoStream
         /\ Opened(r, after).run = r /\ Opened(r, after).pc = "run"
         /\ Opened(r, after).received = after /\ Opened(r, after).cursor = after
<1>1. Opened(r, after) \in Stream
  BY DEF Opened, Stream
<1>2. Opened(r, after) # NoStream
  BY NoneAssumption DEF Opened, NoStream
<1> QED
  BY <1>1, <1>2 DEF Opened

\* The disposal of SetActive, of a page p that goes over to run r.
Disposed(p, r) ==
  [p EXCEPT !.active = r, !.reconciling = None, !.again = FALSE, !.handling = None]

\* Going over to a run that exists, or to none, leaves a page sound.
LEMMA SetActiveIsSound ==
  ASSUME NEW p, SoundPage(p, stream, log), p.active = page.active,
         NEW r \in Runs \cup {None}, r # None => Exists(r),
         SetActive(p, r)
  PROVE  SoundPage(page', stream', log)
<1>1. p \in Page /\ stream \in Stream \cup {NoStream}
  BY DEF SoundPage
<1>2. CASE r = page.active
  BY <1>2 DEF SetActive
<1>3. CASE r # page.active
  <2>1. page' = Disposed(p, r) /\ stream' = IF r = None THEN NoStream ELSE Opened(r, p.lastSequence)
    BY <1>3 DEF SetActive, Disposed
  <2>2. p.lastSequence \in Nat
    BY <1>1 DEF Page
  <2>3. Disposed(p, r) \in Page
    BY <1>1 DEF Disposed, Page
  <2>4. /\ Disposed(p, r).active = r /\ Disposed(p, r).run = p.run
        /\ Disposed(p, r).reconciling = None /\ Disposed(p, r).handling = None
    BY <1>1 DEF Disposed, Page
  <2>5. p.run # None => Known(p.run.run, log)
    BY DEF SoundPage
  <2>6. r # None => Known(r, log)
    BY DEF Known, Exists
  <2>7. CASE r = None
    BY <2>1, <2>3, <2>4, <2>5, <2>7 DEF SoundPage
  <2>8. CASE r # None
    <3>1. /\ stream' = Opened(r, p.lastSequence) /\ stream' \in Stream
          /\ stream'.run = r /\ ~ stream'.received < stream'.cursor
      BY <2>1, <2>2, <2>8, OpenedIsStream
    <3> QED
      BY <2>1, <2>3, <2>4, <2>5, <2>6, <2>8, <3>1 DEF SoundPage
  <2> QED
    BY <2>7, <2>8
<1> QED
  BY <1>2, <1>3

\* What a page shows and counts may change as long as what it shows exists.
LEMMA ShowingIsSound ==
  ASSUME NEW p, SoundPage(p, stream, log), NEW q \in Page,
         q.active = p.active, q.reconciling = p.reconciling, q.handling = p.handling,
         q.run # None => Exists(q.run.run)
  PROVE  SoundPage(q, stream, log)
BY DEF SoundPage, Known, Exists

\* No call is sound, and so is a call about a run that exists.
LEMMA AskIsSound ==
  ASSUME log \in [Runs -> Seq(RunState)], NEW r \in Runs, NEW kind \in CallKind,
         kind = "create" \/ Exists(r)
  PROVE  /\ SoundCall(NoCall, log) /\ SoundCall(Ask(kind, r), log)
         /\ Ask(kind, r) # NoCall /\ Ask(kind, r).kind = kind /\ Ask(kind, r).run = r
         /\ Ask(kind, r).at = Len(log[r])
<1>1. Len(log[r]) \in Nat
  BY LenProperties
<1>2. Ask(kind, r) \in Call
  BY <1>1 DEF Ask, Call
<1>3. Ask(kind, r).kind = kind /\ Ask(kind, r).run = r /\ Ask(kind, r).at = Len(log[r])
  BY DEF Ask
<1>4. Ask(kind, r) # NoCall
  BY <1>3, NoneAssumption DEF NoCall
<1>5. Exists(r) => Known(r, log) /\ Len(log[r]) >= 1
  BY StateOfRun DEF Known, Exists
<1>6. SoundCall(NoCall, log)
  BY DEF SoundCall
<1> QED
  BY <1>2, <1>3, <1>4, <1>5, <1>6 DEF SoundCall

\* One slot changes.
LEMMA CallsAreSound ==
  ASSUME Sound, NEW i \in Slots, NEW c, SoundCall(c, log),
         calls' = [calls EXCEPT ![i] = c]
  PROVE  /\ calls' \in [Slots -> Call \cup {NoCall}]
         /\ \A j \in Slots : SoundCall(calls'[j], log)
BY DEF Sound, SoundCall

\* A call that is waited for has a run, and all but a creation a number to be
\* answered from.
LEMMA WaitingCall ==
  ASSUME Sound, NEW i \in Slots, calls[i].kind \in CallKind
  PROVE  /\ calls[i] # NoCall /\ calls[i].run \in Runs /\ calls[i].at \in Nat
         /\ calls[i].kind # "create" => Exists(calls[i].run) /\ calls[i].at >= 1
<1>1. calls[i] # NoCall
  BY NoneAssumption DEF NoCall
<1>2. calls[i] \in Call /\ SoundCall(calls[i], log)
  BY <1>1 DEF Sound
<1> QED
  BY <1>1, <1>2 DEF Call, SoundCall, Known, Exists

-----------------------------------------------------------------------------
(* Sound holds of the first page.                                          *)

\* A page that is opened is sound.
LEMMA NewPageIsSound ==
  ASSUME NEW recovering \in BOOLEAN
  PROVE  SoundPage(NewPage(recovering), NoStream, log)
<1>1. <<>> \in Events
  BY DEF Events
<1>2. NewPage(recovering) \in Page
  BY <1>1 DEF NewPage, Page
<1>3. /\ NewPage(recovering).active = None /\ NewPage(recovering).run = None
      /\ NewPage(recovering).reconciling = None /\ NewPage(recovering).handling = None
  BY DEF NewPage
<1> QED
  BY <1>2, <1>3 DEF SoundPage

\* What it asks for is its saved run.
LEMMA OpeningIsSound ==
  ASSUME log \in [Runs -> Seq(RunState)], NEW saved, SoundSession(saved, log)
  PROVE  /\ Opening(saved) \in [Slots -> Call \cup {NoCall}]
         /\ \A i \in Slots : SoundCall(Opening(saved)[i], log)
<1>1. CASE saved = None
  BY <1>1 DEF Opening, SoundCall
<1>2. CASE saved # None
  <2>1. saved.run \in Runs /\ Exists(saved.run)
    BY <1>2 DEF SoundSession, Event, Known, Exists
  <2>2. SoundCall(NoCall, log) /\ SoundCall(Ask("recover", saved.run), log)
    BY <2>1, AskIsSound DEF CallKind
  <2> QED
    BY <2>2 DEF Opening, SoundCall
<1> QED
  BY <1>1, <1>2

\* Sound holds initially.
LEMMA InitIsSound == Init => Sound
<1> SUFFICES ASSUME Init PROVE Sound
  OBVIOUS
<1>1. log \in [Runs -> Seq(RunState)] /\ stream = NoStream
  BY EarlierAssumption DEF Init, EventInit
<1>2. SoundSession(session, log)
  <2>1. CASE session = None
    BY <2>1 DEF SoundSession
  <2>2. CASE session # None
    <3>1. PICK r \in Runs : Exists(r) /\ session = [run |-> r, sequence |-> Len(log[r])]
      BY <2>2 DEF Init
    <3>2. Len(log[r]) \in Nat
      BY <1>1, LenProperties
    <3> QED
      BY <3>1, <3>2 DEF SoundSession, Event, Known, Exists
  <2> QED
    BY <2>1, <2>2
<1>3. SoundPage(page, stream, log)
  BY <1>1, NewPageIsSound DEF Init
<1>4. calls \in [Slots -> Call \cup {NoCall}] /\ \A i \in Slots : SoundCall(calls[i], log)
  BY <1>1, <1>2, OpeningIsSound DEF Init
<1>5. reloads \in 0..MaxReloads
  BY MaxReloadsAssumption DEF Init
<1> QED
  BY <1>1, <1>2, <1>3, <1>4, <1>5 DEF Sound

-----------------------------------------------------------------------------
(* The steps keep Sound.                                                   *)

\* The parts of Sound that a step leaves, put together.
LEMMA SoundNext ==
  ASSUME Sound, UNCHANGED log, SoundPage(page', stream', log),
         calls' \in [Slots -> Call \cup {NoCall}],
         \A i \in Slots : SoundCall(calls'[i], log),
         SoundSession(session', log), reloads' \in 0..MaxReloads
  PROVE  Sound'
<1>1. log' = log
  OBVIOUS
<1> QED
  BY <1>1 DEF Sound

\* The run's state moves on, or the run is stored.
LEMMA LogStepIsSound ==
  ASSUME Sound, NEW r \in Runs, UNCHANGED <<stream, pageVars>>,
         Transition(r) \/ (~ Exists(r) /\ Create(r))
  PROVE  Sound'
<1>1. log \in [Runs -> Seq(RunState)]
  BY DEF Sound
<1>2. log' \in [Runs -> Seq(RunState)] /\ Later(log, log')
  BY <1>1, LogGrows
<1>3. /\ page' = page /\ stream' = stream /\ calls' = calls /\ session' = session
      /\ reloads' = reloads
  BY DEF pageVars
<1>4. SoundPage(page, stream, log')
  BY <1>1, <1>2, SoundStays DEF Sound
<1>5. \A i \in Slots : SoundCall(calls[i], log')
  BY <1>1, <1>2, SoundStays DEF Sound
<1>6. SoundSession(session, log')
  BY <1>1, <1>2, SoundStays DEF Sound
<1> QED
  BY <1>2, <1>3, <1>4, <1>5, <1>6 DEF Sound

\* The server's reads keep a stream a stream, of the same run.
LEMMA ServeKeepsStream ==
  ASSUME log \in [Runs -> Seq(RunState)], stream \in Stream \cup {NoStream},
         stream # NoStream => stream.run \in Runs /\ Exists(stream.run), Serve
  PROVE  /\ UNCHANGED log /\ stream # NoStream /\ stream' \in Stream /\ stream' # NoStream
         /\ stream'.run = stream.run /\ stream'.received = stream.received
         /\ stream'.cursor = stream.cursor \/ stream'.cursor = Len(log[stream.run])
         /\ stream'.cursor >= stream.cursor
<1>1. stream # NoStream /\ stream \in Stream /\ stream.run \in Runs /\ Exists(stream.run)
  BY DEF Serve, ReadRun, ReadEvents, Recheck, Streaming
<1>2. State(stream.run) \in RunState /\ Len(log[stream.run]) \in Nat
  BY <1>1, StateOfRun
<1>3. stream' \in Stream /\ stream'.run = stream.run /\ stream'.received = stream.received
  <2>1. CASE ReadRun
    BY <1>1, <1>2, <2>1 DEF ReadRun, Stream
  <2>2. CASE ReadEvents
    BY <1>1, <1>2, <2>2 DEF ReadEvents, Stream
  <2>3. CASE Recheck
    BY <1>1, <1>2, <2>3 DEF Recheck, Stream
  <2> QED
    BY <2>1, <2>2, <2>3 DEF Serve
<1>6. /\ stream'.cursor = stream.cursor \/ stream'.cursor = Len(log[stream.run])
      /\ stream'.cursor >= stream.cursor
  <2>0. stream.cursor \in Nat
    BY <1>1 DEF Stream
  <2>1. CASE ReadRun \/ Recheck
    <3>1. stream'.cursor = stream.cursor
      BY <1>1, <2>1 DEF ReadRun, Recheck, Stream
    <3> QED
      BY <2>0, <3>1
  <2>2. CASE ReadEvents
    <3> DEFINE stored == Len(log[stream.run])
    <3>1. stream'.cursor = IF stored > stream.cursor THEN stored ELSE stream.cursor
      BY <1>1, <2>2 DEF ReadEvents, Stream
    <3> QED
      BY <1>2, <2>0, <3>1
  <2> QED
    BY <2>1, <2>2 DEF Serve
<1>4. stream' # NoStream
  BY <1>1, <1>3, NoneAssumption DEF NoStream
<1>5. UNCHANGED log
  BY DEF Serve, ReadRun, ReadEvents, Recheck
<1> QED
  BY <1>1, <1>3, <1>4, <1>5, <1>6

\* Sound is kept by the server's reads.
LEMMA ServeIsSound ==
  ASSUME Sound, ServerPolls
  PROVE  Sound'
<1>1. log \in [Runs -> Seq(RunState)] /\ SoundPage(page, stream, log)
  BY DEF Sound
<1>2. stream # NoStream => stream.run \in Runs /\ Exists(stream.run)
  <2> SUFFICES ASSUME stream # NoStream PROVE stream.run \in Runs /\ Exists(stream.run)
    OBVIOUS
  <2>1. stream \in Stream
    BY <1>1 DEF SoundPage
  <2>2. stream.run \in Runs /\ stream.run = page.active
    BY <1>1, <2>1 DEF SoundPage, Stream
  <2> QED
    BY <1>1, <2>2, NoneAssumption DEF SoundPage, Known, Exists
<1>3. stream \in Stream \cup {NoStream} /\ Serve
  BY <1>1 DEF SoundPage, ServerPolls
<1>4. /\ UNCHANGED log /\ stream # NoStream /\ stream' \in Stream
      /\ stream'.run = stream.run /\ stream'.received = stream.received
      /\ stream'.cursor = stream.cursor \/ stream'.cursor = Len(log[stream.run])
  BY <1>1, <1>2, <1>3, ServeKeepsStream
<1>5. UNCHANGED pageVars
  BY DEF ServerPolls
<1>6. stream'.received < stream'.cursor => stream'.cursor <= Len(log[stream.run])
  <2>1. stream.run \in Runs
    BY <1>2, <1>4
  <2>2. Len(log[stream.run]) \in Nat
    BY <1>1, <2>1, LenProperties
  <2>3. CASE stream'.cursor = Len(log[stream.run])
    BY <2>2, <2>3
  <2>4. CASE stream'.cursor = stream.cursor
    BY <1>1, <1>4, <2>4 DEF SoundPage
  <2> QED
    BY <1>4, <2>3, <2>4
<1>7. SoundPage(page, stream', log)
  BY <1>1, <1>4, <1>6 DEF SoundPage
<1> QED
  BY <1>4, <1>5, <1>7, SoundNext DEF Sound, pageVars

\* A page that is changed without a change of the run it follows.
Shown(q) ==
  /\ q \in Page /\ q.active = page.active
  /\ q.reconciling = page.reconciling /\ q.handling = page.handling
  /\ q.run # None => Exists(q.run.run)

\* An empty timeline.
LEMMA FreshTimelineIsShown ==
  ASSUME Sound
  PROVE  LET q == FreshTimeline(page)
         IN  /\ Shown(q) /\ q.lastSequence = 0 /\ q.events = <<>> /\ q.run = page.run
             /\ q.lost = page.lost /\ q.strayed = page.strayed
<1>1. page \in Page
  BY DEF Sound, SoundPage
<1>2. <<>> \in Events
  BY DEF Events
<1>3. page.run # None => Exists(page.run.run)
  BY DEF Sound, SoundPage, Known, Exists
<1> DEFINE q == FreshTimeline(page)
<1>4. q \in Page
  <2>1. 0 \in Nat /\ 0 \in 0..1
    OBVIOUS
  <2> QED
    BY <1>1, <1>2, <2>1, Zenon DEF FreshTimeline, Page
<1>5. /\ q.active = page.active /\ q.reconciling = page.reconciling
      /\ q.handling = page.handling /\ q.run = page.run /\ q.lost = page.lost
      /\ q.strayed = page.strayed /\ q.lastSequence = 0 /\ q.events = <<>>
  BY <1>1 DEF FreshTimeline, Page
<1> HIDE DEF q
<1>6. Shown(q)
  BY <1>3, <1>4, <1>5 DEF Shown
<1> QED
  BY <1>5, <1>6 DEF q

\* Sound is kept by analyze().
LEMMA AnalyzeIsSound ==
  ASSUME Sound, NEW i \in Slots, NEW r \in Runs, Analyze(i, r)
  PROVE  Sound'
<1>1. log \in [Runs -> Seq(RunState)] /\ SoundPage(page, stream, log)
  BY DEF Sound
<1> DEFINE q == FreshTimeline(page)
<1>2. q \in Page /\ Shown(q)
  BY FreshTimelineIsShown DEF Shown
<1>3. page' = [q EXCEPT !.recovering = FALSE, !.target = None, !.busy = TRUE, !.error = FALSE]
  BY DEF Analyze
<1> HIDE DEF q
<1>4. page' \in Page
  BY <1>2, <1>3 DEF Page
<1>5. /\ page'.active = q.active /\ page'.reconciling = q.reconciling
      /\ page'.handling = q.handling /\ page'.run = q.run
  BY <1>2, <1>3 DEF Page
<1>6. SoundPage(page', stream, log)
  BY <1>1, <1>2, <1>4, <1>5, ShowingIsSound DEF Shown
<1>7. SoundCall(Ask("create", r), log) /\ calls' = [calls EXCEPT ![i] = Ask("create", r)]
  BY <1>1, AskIsSound DEF Analyze, CallKind
<1>8. calls' \in [Slots -> Call \cup {NoCall}] /\ \A j \in Slots : SoundCall(calls'[j], log)
  BY <1>7, CallsAreSound
<1>9. UNCHANGED <<log, stream, session, reloads>>
  BY DEF Analyze, eventVars
<1> QED
  BY <1>6, <1>8, <1>9, SoundNext DEF Sound

\* Sound is kept by a POST that stores a run.
LEMMA ServeCreateIsSound ==
  ASSUME Sound, NEW i \in Slots, ServeCreate(i)
  PROVE  Sound'
<1>1. calls[i].kind \in CallKind /\ ~ Exists(calls[i].run) /\ Create(calls[i].run)
  BY DEF ServeCreate, CallKind
<1>2. calls[i].run \in Runs
  BY <1>1, WaitingCall
<1>3. UNCHANGED <<stream, pageVars>>
  BY DEF ServeCreate
<1> QED
  BY <1>1, <1>2, <1>3, LogStepIsSound

\* The page as it is.
LEMMA PageIsShown ==
  ASSUME Sound
  PROVE  /\ page \in Page /\ Shown(page)
         /\ page.active \in Runs \cup {None}
         /\ page.active # None => page.active \in Runs /\ Exists(page.active)
         /\ page.run # None => page.run \in RunView /\ page.run.run \in Runs /\ Exists(page.run.run)
         /\ log \in [Runs -> Seq(RunState)]
<1>1. page \in Page /\ log \in [Runs -> Seq(RunState)]
  BY DEF Sound, SoundPage
<1>2. page.active \in Runs \cup {None} /\ page.run \in RunView \cup {None}
  BY <1>1 DEF Page
<1>3. page.run # None => page.run \in RunView /\ page.run.run \in Runs
  BY <1>2 DEF RunView
<1>4. /\ page.run # None => Exists(page.run.run)
      /\ page.active # None => Exists(page.active)
  BY DEF Sound, SoundPage, Known, Exists
<1> QED
  BY <1>1, <1>2, <1>3, <1>4 DEF Shown

\* A page that is changed and goes over to a run.
LEMMA GoingIsSound ==
  ASSUME Sound, NEW p, Shown(p), NEW r \in Runs \cup {None}, r # None => Exists(r),
         SetActive(p, r)
  PROVE  SoundPage(page', stream', log)
<1>1. SoundPage(page, stream, log)
  BY DEF Sound
<1>2. SoundPage(p, stream, log) /\ p.active = page.active
  BY <1>1, ShowingIsSound DEF Shown
<1> QED
  BY <1>2, SetActiveIsSound

\* A page that is changed and stays where it is.
LEMMA StayingIsSound ==
  ASSUME Sound, NEW p, Shown(p), page' = p, UNCHANGED stream
  PROVE  SoundPage(page', stream', log)
<1>1. SoundPage(page, stream, log)
  BY DEF Sound
<1>2. SoundPage(p, stream, log)
  BY <1>1, ShowingIsSound DEF Shown
<1> QED
  BY <1>2

\* A call that is answered leaves its slot.
LEMMA AnsweredIsSound ==
  ASSUME Sound, NEW i \in Slots, Answered(i)
  PROVE  /\ calls' \in [Slots -> Call \cup {NoCall}]
         /\ \A j \in Slots : SoundCall(calls'[j], log)
<1>1. SoundCall(NoCall, log)
  BY DEF SoundCall
<1> QED
  BY <1>1, CallsAreSound DEF Answered

\* A call that a handler makes takes one.
LEMMA AskingIsSound ==
  ASSUME Sound, NEW i \in Slots, NEW kind \in CallKind, NEW r \in Runs,
         kind = "create" \/ Exists(r), calls' = [calls EXCEPT ![i] = Ask(kind, r)]
  PROVE  /\ calls' \in [Slots -> Call \cup {NoCall}]
         /\ \A j \in Slots : SoundCall(calls'[j], log)
<1>1. SoundCall(Ask(kind, r), log)
  BY AskIsSound DEF Sound
<1> QED
  BY <1>1, CallsAreSound

\* A page that takes an answer differs in the history alone.
LEMMA TakingIsShown ==
  ASSUME Sound, NEW i \in Slots
  PROVE  /\ Shown(Taking(i)) /\ Taking(i).run = page.run /\ Taking(i).lost = page.lost
         /\ Taking(i).recovering = page.recovering
         /\ Taking(i).lastSequence = page.lastSequence /\ Taking(i).events = page.events
         /\ Taking(i).active = page.active
         /\ page.strayed \/ Strays(i) => Taking(i).strayed
<1> DEFINE b == page.strayed \/ Strays(i)
           q == [page EXCEPT !.strayed = b]
<1>1. page \in Page /\ Shown(page)
  BY PageIsShown
<1>2. b \in BOOLEAN
  BY <1>1, Zenon DEF Page, Strays
<1>3. Taking(i) = q
  BY DEF Taking
<1> HIDE DEF b
<1>4. q \in Page
  BY <1>1, <1>2, Zenon DEF Page
<1>5. /\ q.run = page.run /\ q.lost = page.lost /\ q.recovering = page.recovering
      /\ q.lastSequence = page.lastSequence /\ q.events = page.events
      /\ q.active = page.active /\ q.reconciling = page.reconciling
      /\ q.handling = page.handling /\ q.strayed = b
  BY <1>1, Zenon DEF Page
<1> HIDE DEF q
<1>6. Shown(q)
  BY <1>1, <1>4, <1>5 DEF Shown
<1> QED
  BY <1>3, <1>5, <1>6 DEF b

\* A view of a run that exists may be shown, busy or not, with a message or not.
LEMMA ViewIsShown ==
  ASSUME NEW base, Shown(base), NEW view \in RunView, Exists(view.run),
         NEW busy \in BOOLEAN, NEW error \in BOOLEAN
  PROVE  /\ Shown([base EXCEPT !.run = view])
         /\ Shown([base EXCEPT !.busy = busy])
         /\ Shown([[base EXCEPT !.busy = busy] EXCEPT !.run = view])
         /\ Shown([[base EXCEPT !.busy = busy, !.error = error] EXCEPT !.run = view])
         /\ Shown([base EXCEPT !.busy = busy, !.error = error])
         /\ Shown([base EXCEPT !.run = view, !.target = None, !.error = error, !.busy = busy])
<1>1. base \in Page /\ Shown(base)
  BY DEF Shown
<1>2. ASSUME NEW p \in Page, p.active = base.active, p.reconciling = base.reconciling,
             p.handling = base.handling, NEW q, q = [p EXCEPT !.run = view]
      PROVE  Shown(q)
  <2>1. q \in Page
    BY <1>2, Zenon DEF Page
  <2>2. /\ q.run = view /\ q.active = p.active /\ q.reconciling = p.reconciling
        /\ q.handling = p.handling
    BY <1>2, Zenon DEF Page
  <2> QED
    BY <1>1, <1>2, <2>1, <2>2 DEF Shown
<1>3. ASSUME NEW p, NEW e \in BOOLEAN, p = [base EXCEPT !.busy = busy, !.error = e]
      PROVE  p \in Page /\ Shown(p)
  <2>1. p \in Page
    BY <1>1, <1>3, Zenon DEF Page
  <2>2. /\ p.run = base.run /\ p.active = base.active /\ p.reconciling = base.reconciling
        /\ p.handling = base.handling
    BY <1>1, <1>3, Zenon DEF Page
  <2> QED
    BY <1>1, <2>1, <2>2 DEF Shown
<1>4. ASSUME NEW p, p = [base EXCEPT !.busy = busy]
      PROVE  p \in Page /\ Shown(p)
  <2>1. p \in Page
    BY <1>1, <1>4, Zenon DEF Page
  <2>2. /\ p.run = base.run /\ p.active = base.active /\ p.reconciling = base.reconciling
        /\ p.handling = base.handling
    BY <1>1, <1>4, Zenon DEF Page
  <2> QED
    BY <1>1, <2>1, <2>2 DEF Shown
<1>5. ASSUME NEW p, p = [base EXCEPT !.run = view, !.target = None, !.error = error, !.busy = busy]
      PROVE  Shown(p)
  <2>1. p \in Page
    BY <1>1, <1>5, Zenon DEF Page
  <2>2. /\ p.run = view /\ p.active = base.active /\ p.reconciling = base.reconciling
        /\ p.handling = base.handling
    BY <1>1, <1>5, Zenon DEF Page
  <2> QED
    BY <1>1, <2>1, <2>2 DEF Shown
<1>6. Shown([base EXCEPT !.run = view])
  BY <1>1, <1>2
<1>7. Shown([[base EXCEPT !.busy = busy] EXCEPT !.run = view])
  BY <1>1, <1>2, <1>4 DEF Shown
<1>8. Shown([[base EXCEPT !.busy = busy, !.error = error] EXCEPT !.run = view])
  BY <1>1, <1>2, <1>3 DEF Shown
<1> QED
  BY <1>3, <1>4, <1>5, <1>6, <1>7, <1>8

\* The page of a handler that starts with a clean slate: how it differs from
\* the page before is the same for approve() and continueWithSnapshot().
LEMMA StartedIsShown ==
  ASSUME Sound
  PROVE  Shown([page EXCEPT !.target = None, !.busy = TRUE, !.error = FALSE, !.reconnects = 0])
<1>1. page \in Page /\ Shown(page)
  BY PageIsShown
<1>2. ASSUME NEW p,
             p = [page EXCEPT !.target = None, !.busy = TRUE, !.error = FALSE, !.reconnects = 0]
      PROVE  Shown(p)
  <2>1. 0 \in 0..1
    OBVIOUS
  <2>2. p \in Page
    BY <1>1, <1>2, <2>1, Zenon DEF Page
  <2>3. /\ p.run = page.run /\ p.active = page.active /\ p.reconciling = page.reconciling
        /\ p.handling = page.handling
    BY <1>1, <1>2, Zenon DEF Page
  <2> QED
    BY <1>1, <2>2, <2>3 DEF Shown
<1> QED
  BY <1>2

\* Sound is kept by the answer to analyze().
LEMMA CreateAnsweredIsSound ==
  ASSUME Sound, NEW i \in Slots, CreateAnswered(i)
  PROVE  Sound'
<1> DEFINE r == calls[i].run
           p == [Taking(i) EXCEPT !.run = View(r, "created")]
<1>1. r \in Runs /\ Exists(r)
  BY WaitingCall DEF CreateAnswered, CallKind
<1>2. View(r, "created") \in RunView /\ View(r, "created").run = r
  BY <1>1, ViewIsView DEF RunState
<1>3. Shown(p)
  BY <1>1, <1>2, TakingIsShown, ViewIsShown
<1>4. SetActive(p, r) /\ session' = [run |-> r, sequence |-> 0] /\ Answered(i)
      /\ UNCHANGED <<log, reloads>>
  BY DEF CreateAnswered
<1> HIDE DEF r, p
<1>5. SoundPage(page', stream', log)
  BY <1>1, <1>3, <1>4, GoingIsSound
<1>6. SoundSession(session', log)
  BY <1>1, <1>4 DEF SoundSession, Event, Known, Exists
<1>7. calls' \in [Slots -> Call \cup {NoCall}] /\ \A j \in Slots : SoundCall(calls'[j], log)
  BY <1>4, AnsweredIsSound
<1> QED
  BY <1>4, <1>5, <1>6, <1>7, SoundNext DEF Sound

\* Sound is kept by a call that fails.
LEMMA CallFailsIsSound ==
  ASSUME Sound, NEW i \in Slots, CallFails(i)
  PROVE  Sound'
<1> DEFINE p == [page EXCEPT !.error = TRUE, !.busy = FALSE]
<1>1. page \in Page /\ Shown(page)
  BY PageIsShown
<1>2. p \in Page
  BY <1>1, Zenon DEF Page
<1>3. /\ p.run = page.run /\ p.active = page.active /\ p.reconciling = page.reconciling
      /\ p.handling = page.handling
  BY <1>1, Zenon DEF Page
<1>4. page' = p /\ Answered(i) /\ UNCHANGED <<log, stream, session, reloads>>
  BY DEF CallFails, eventVars
<1> HIDE DEF p
<1>5. Shown(p)
  BY <1>1, <1>2, <1>3 DEF Shown
<1>6. SoundPage(page', stream', log)
  BY <1>4, <1>5, StayingIsSound
<1>7. calls' \in [Slots -> Call \cup {NoCall}] /\ \A j \in Slots : SoundCall(calls'[j], log)
  BY <1>4, AnsweredIsSound
<1> QED
  BY <1>4, <1>6, <1>7, SoundNext DEF Sound

\* Sound is kept by the button that approves.
LEMMA ApproveIsSound ==
  ASSUME Sound, NEW i \in Slots, Approve(i)
  PROVE  Sound'
<1> DEFINE r == page.run.run
           p == [page EXCEPT !.target = None, !.busy = TRUE, !.error = FALSE, !.reconnects = 0]
<1>1. page.run # None
  BY DEF Approve, Shows
<1>2. r \in Runs /\ Exists(r) /\ page \in Page
  BY <1>1, PageIsShown
<1>3. Shown(p)
  BY StartedIsShown
<1>4. /\ SetActive(p, r) /\ session' = [run |-> r, sequence |-> page.lastSequence]
      /\ calls' = [calls EXCEPT ![i] = Ask("approve", r)] /\ UNCHANGED <<log, reloads>>
  BY DEF Approve
<1> HIDE DEF r, p
<1>5. SoundPage(page', stream', log)
  BY <1>2, <1>3, <1>4, GoingIsSound
<1>6. page.lastSequence \in Nat
  BY <1>2 DEF Page
<1>7. SoundSession(session', log)
  BY <1>2, <1>4, <1>6 DEF SoundSession, Event, Known, Exists
<1>8. calls' \in [Slots -> Call \cup {NoCall}] /\ \A j \in Slots : SoundCall(calls'[j], log)
  BY <1>2, <1>4, AskingIsSound DEF CallKind
<1> QED
  BY <1>4, <1>5, <1>7, <1>8, SoundNext DEF Sound

\* Sound is kept by the end of the approval's POST.
LEMMA ApproveAnsweredIsSound ==
  ASSUME Sound, NEW i \in Slots, ApproveAnswered(i)
  PROVE  Sound'
<1> DEFINE r == calls[i].run
<1>1. r \in Runs /\ Exists(r)
  BY WaitingCall DEF ApproveAnswered, CallKind
<1>2. /\ \/ calls' = [calls EXCEPT ![i] = Ask("approved", r)]
         \/ calls' = [calls EXCEPT ![i] = Ask("refresh", r)]
      /\ UNCHANGED <<log, stream, page, session, reloads>>
  BY DEF ApproveAnswered, eventVars
<1> HIDE DEF r
<1>3. calls' \in [Slots -> Call \cup {NoCall}] /\ \A j \in Slots : SoundCall(calls'[j], log)
  BY <1>1, <1>2, AskingIsSound DEF CallKind
<1>4. SoundPage(page', stream', log)
  BY <1>2, PageIsShown, StayingIsSound
<1> QED
  BY <1>2, <1>3, <1>4, SoundNext DEF Sound

\* Showing what a GET answered about a run.
LEMMA FinalIsSound ==
  ASSUME Sound, NEW view \in RunView, Exists(view.run), NEW p, p.active = page.active,
         Shown([p EXCEPT !.run = view]), ShowFinal(p, view)
  PROVE  SoundPage(page', stream', log)
<1> DEFINE r == IF view.state \in StreamEndStates THEN None ELSE page.active
<1>1. r \in Runs \cup {None} /\ (r # None => Exists(r))
  BY PageIsShown
<1>2. SetActive([p EXCEPT !.run = view], r)
  BY DEF ShowFinal
<1> HIDE DEF r
<1> QED
  BY <1>1, <1>2, GoingIsSound

\* Sound is kept by the GET after the receipt.
LEMMA ApprovedAnsweredIsSound ==
  ASSUME Sound, NEW i \in Slots, ApprovedAnswered(i)
  PROVE  Sound'
<1>1. calls[i].kind = "approved"
  BY DEF ApprovedAnswered
<1>2. /\ calls[i].run \in Runs /\ Exists(calls[i].run) /\ calls[i].at \in Nat /\ calls[i].at >= 1
      /\ log \in [Runs -> Seq(RunState)]
  BY <1>1, WaitingCall DEF CallKind, Sound
<1>3. UNCHANGED <<log, session, reloads>>
  BY DEF ApprovedAnswered
<1>4. CASE /\ \E view \in Answers(calls[i].run, calls[i].at) :
                ShowFinal([Taking(i) EXCEPT !.busy = FALSE], view)
           /\ Answered(i)
  <2>1. PICK view \in Answers(calls[i].run, calls[i].at) :
          ShowFinal([Taking(i) EXCEPT !.busy = FALSE], view)
    BY <1>4
  <2>2. view \in RunView /\ view.run = calls[i].run
    BY <1>2, AnswerIsView
  <2>3. Shown([[Taking(i) EXCEPT !.busy = FALSE] EXCEPT !.run = view])
    BY <1>2, <2>2, TakingIsShown, ViewIsShown
  <2>4. [Taking(i) EXCEPT !.busy = FALSE].active = page.active
    BY TakingIsShown, Zenon DEF Page, Shown
  <2>5. SoundPage(page', stream', log)
    BY <1>2, <2>1, <2>2, <2>3, <2>4, FinalIsSound
  <2>6. calls' \in [Slots -> Call \cup {NoCall}] /\ \A j \in Slots : SoundCall(calls'[j], log)
    BY <1>4, AnsweredIsSound
  <2> QED
    BY <1>3, <2>5, <2>6, SoundNext DEF Sound
<1>5. CASE /\ calls' = [calls EXCEPT ![i] = Ask("refresh", calls[i].run)]
           /\ UNCHANGED <<page, stream>>
  <2>1. SoundPage(page', stream', log)
    BY <1>5, PageIsShown, StayingIsSound
  <2>2. calls' \in [Slots -> Call \cup {NoCall}] /\ \A j \in Slots : SoundCall(calls'[j], log)
    BY <1>2, <1>5, AskingIsSound DEF CallKind
  <2> QED
    BY <1>3, <2>1, <2>2, SoundNext DEF Sound
<1> QED
  BY <1>4, <1>5 DEF ApprovedAnswered

\* Sound is kept by the GET after an error.
LEMMA RefreshAnsweredIsSound ==
  ASSUME Sound, NEW i \in Slots, RefreshAnswered(i)
  PROVE  Sound'
<1>1. calls[i].kind = "refresh"
  BY DEF RefreshAnswered
<1>2. /\ calls[i].run \in Runs /\ Exists(calls[i].run) /\ calls[i].at \in Nat /\ calls[i].at >= 1
      /\ log \in [Runs -> Seq(RunState)]
  BY <1>1, WaitingCall DEF CallKind, Sound
<1>3. UNCHANGED <<log, session, reloads>> /\ Answered(i)
  BY DEF RefreshAnswered
<1>4. calls' \in [Slots -> Call \cup {NoCall}] /\ \A j \in Slots : SoundCall(calls'[j], log)
  BY <1>3, AnsweredIsSound
<1>5. CASE \E view \in Answers(calls[i].run, calls[i].at) :
             ShowFinal([Taking(i) EXCEPT !.busy = FALSE, !.error = view.state # "completed"], view)
  <2>1. PICK view \in Answers(calls[i].run, calls[i].at) :
          ShowFinal([Taking(i) EXCEPT !.busy = FALSE, !.error = view.state # "completed"], view)
    BY <1>5
  <2>2. view \in RunView /\ view.run = calls[i].run
    BY <1>2, AnswerIsView
  <2>3. Shown([[Taking(i) EXCEPT !.busy = FALSE, !.error = view.state # "completed"]
                 EXCEPT !.run = view])
    BY <1>2, <2>2, TakingIsShown, ViewIsShown
  <2>4. [Taking(i) EXCEPT !.busy = FALSE, !.error = view.state # "completed"].active = page.active
    BY TakingIsShown, Zenon DEF Page, Shown
  <2>5. SoundPage(page', stream', log)
    BY <1>2, <2>1, <2>2, <2>3, <2>4, FinalIsSound
  <2> QED
    BY <1>3, <1>4, <2>5, SoundNext DEF Sound
<1>6. CASE page' = [page EXCEPT !.busy = FALSE, !.error = TRUE] /\ UNCHANGED stream
  <2> DEFINE p == [page EXCEPT !.busy = FALSE, !.error = TRUE]
  <2>1. View(calls[i].run, "created") \in RunView /\ View(calls[i].run, "created").run = calls[i].run
    BY <1>2, ViewIsView DEF RunState
  <2>2. Shown(p)
    BY <1>2, <2>1, PageIsShown, ViewIsShown
  <2> HIDE DEF p
  <2>3. SoundPage(page', stream', log)
    BY <1>6, <2>2, StayingIsSound DEF p
  <2> QED
    BY <1>3, <1>4, <2>3, SoundNext DEF Sound
<1> QED
  BY <1>5, <1>6 DEF RefreshAnswered

\* Sound is kept by the button that goes on with the snapshot.
LEMMA ContinueIsSound ==
  ASSUME Sound, NEW i \in Slots, Continue(i)
  PROVE  Sound'
<1> DEFINE r == page.run.run
           p == [page EXCEPT !.target = None, !.busy = TRUE, !.error = FALSE, !.reconnects = 0]
<1>1. page.run # None
  BY DEF Continue, Shows
<1>2. r \in Runs /\ Exists(r)
  BY <1>1, PageIsShown
<1>3. Shown(p)
  BY StartedIsShown
<1>4. /\ page' = p /\ calls' = [calls EXCEPT ![i] = Ask("continue", r)]
      /\ UNCHANGED <<log, stream, session, reloads>>
  BY DEF Continue, eventVars
<1> HIDE DEF r, p
<1>5. SoundPage(page', stream', log)
  BY <1>3, <1>4, StayingIsSound
<1>6. calls' \in [Slots -> Call \cup {NoCall}] /\ \A j \in Slots : SoundCall(calls'[j], log)
  BY <1>2, <1>4, AskingIsSound DEF CallKind
<1> QED
  BY <1>4, <1>5, <1>6, SoundNext DEF Sound

\* Sound is kept by the answer to it.
LEMMA ContinueAnsweredIsSound ==
  ASSUME Sound, NEW i \in Slots, ContinueAnswered(i)
  PROVE  Sound'
<1> DEFINE r == calls[i].run
           p == [Taking(i) EXCEPT !.run = View(r, "loading_context")]
<1>1. r \in Runs /\ Exists(r) /\ page \in Page
  BY WaitingCall, PageIsShown DEF ContinueAnswered, CallKind
<1>2. View(r, "loading_context") \in RunView /\ View(r, "loading_context").run = r
  BY <1>1, ViewIsView DEF RunState
<1>3. Shown(p)
  BY <1>1, <1>2, TakingIsShown, ViewIsShown
<1>4. SetActive(p, r) /\ session' = [run |-> r, sequence |-> page.lastSequence] /\ Answered(i)
      /\ UNCHANGED <<log, reloads>>
  BY DEF ContinueAnswered
<1> HIDE DEF r, p
<1>5. SoundPage(page', stream', log)
  BY <1>1, <1>3, <1>4, GoingIsSound
<1>6. page.lastSequence \in Nat
  BY <1>1 DEF Page
<1>7. SoundSession(session', log)
  BY <1>1, <1>4, <1>6 DEF SoundSession, Event, Known, Exists
<1>8. calls' \in [Slots -> Call \cup {NoCall}] /\ \A j \in Slots : SoundCall(calls'[j], log)
  BY <1>4, AnsweredIsSound
<1> QED
  BY <1>4, <1>5, <1>7, <1>8, SoundNext DEF Sound

\* Sound is kept by reset().
LEMMA ResetIsSound ==
  ASSUME Sound, Reset
  PROVE  Sound'
<1> DEFINE q == FreshTimeline(page)
           p == [q EXCEPT !.recovering = FALSE, !.target = None, !.run = None,
                          !.error = FALSE, !.busy = FALSE, !.strayed = FALSE]
<1>1. q \in Page /\ Shown(q)
  BY FreshTimelineIsShown DEF Shown
<1>2. SetActive(p, None) /\ session' = None /\ UNCHANGED <<log, calls, reloads>>
  BY DEF Reset
<1> HIDE DEF q
<1>3. p \in Page
  BY <1>1, Zenon DEF Page
<1>4. /\ p.run = None /\ p.active = q.active /\ p.reconciling = q.reconciling
      /\ p.handling = q.handling
  BY <1>1, Zenon DEF Page
<1> HIDE DEF p
<1>5. Shown(p)
  BY <1>1, <1>3, <1>4 DEF Shown
<1>6. SoundPage(page', stream', log)
  BY <1>2, <1>5, GoingIsSound
<1>7. SoundSession(session', log)
  BY <1>2 DEF SoundSession
<1> QED
  BY <1>2, <1>6, <1>7, SoundNext DEF Sound

\* Sound is kept by a reload.
LEMMA ReloadIsSound ==
  ASSUME Sound, Reload
  PROVE  Sound'
<1>1. /\ page' = NewPage(session # None) /\ stream' = NoStream /\ calls' = Opening(session)
      /\ reloads' = reloads + 1 /\ reloads < MaxReloads /\ UNCHANGED <<log, session>>
  BY DEF Reload
<1>2. SoundPage(page', stream', log)
  BY <1>1, NewPageIsSound
<1>3. calls' \in [Slots -> Call \cup {NoCall}] /\ \A j \in Slots : SoundCall(calls'[j], log)
  BY <1>1, OpeningIsSound DEF Sound
<1>4. reloads' \in 0..MaxReloads
  BY <1>1, MaxReloadsAssumption DEF Sound
<1> QED
  BY <1>1, <1>2, <1>3, <1>4, SoundNext DEF Sound

\* Sound is kept by the answer about the saved run.
LEMMA RecoveredIsSound ==
  ASSUME Sound, NEW i \in Slots, Recovered(i)
  PROVE  Sound'
<1>1. calls[i].kind = "recover"
  BY DEF Recovered
<1>2. /\ calls[i].run \in Runs /\ Exists(calls[i].run) /\ calls[i].at \in Nat /\ calls[i].at >= 1
      /\ log \in [Runs -> Seq(RunState)]
  BY <1>1, WaitingCall DEF CallKind, Sound
<1> DEFINE q == FreshTimeline(page)
           p(view) == [q EXCEPT !.recovering = FALSE, !.run = view, !.target = view.state,
                                !.busy = view.state \notin RecoveredActionStates]
<1>3. q \in Page /\ Shown(q)
  BY FreshTimelineIsShown DEF Shown
<1>4. PICK view \in Answers(calls[i].run, calls[i].at) : SetActive(p(view), calls[i].run)
  BY DEF Recovered
<1>5. view \in RunView /\ view.run = calls[i].run
  BY <1>2, <1>4, AnswerIsView
<1> HIDE DEF q
<1>6. p(view) \in Page
  <2>1. view.state \in RunState
    BY <1>5 DEF RunView
  <2> QED
    BY <1>3, <1>5, <2>1, Zenon DEF Page
<1>7. /\ p(view).run = view /\ p(view).active = q.active
      /\ p(view).reconciling = q.reconciling /\ p(view).handling = q.handling
  BY <1>3, Zenon DEF Page
<1> HIDE DEF p
<1>8. Shown(p(view))
  BY <1>2, <1>3, <1>5, <1>6, <1>7 DEF Shown
<1>9. SoundPage(page', stream', log)
  BY <1>2, <1>4, <1>8, GoingIsSound
<1>10. UNCHANGED <<log, session, reloads>> /\ Answered(i)
  BY DEF Recovered
<1>11. calls' \in [Slots -> Call \cup {NoCall}] /\ \A j \in Slots : SoundCall(calls'[j], log)
  BY <1>10, AnsweredIsSound
<1> QED
  BY <1>9, <1>10, <1>11, SoundNext DEF Sound

\* Sound is kept by a saved run that cannot be fetched.
LEMMA RecoveryFailsIsSound ==
  ASSUME Sound, NEW i \in Slots, RecoveryFails(i)
  PROVE  Sound'
<1> DEFINE p == [page EXCEPT !.recovering = FALSE, !.error = TRUE, !.busy = FALSE]
<1>1. page \in Page /\ Shown(page)
  BY PageIsShown
<1>2. p \in Page
  BY <1>1, Zenon DEF Page
<1>3. /\ p.run = page.run /\ p.active = page.active /\ p.reconciling = page.reconciling
      /\ p.handling = page.handling
  BY <1>1, Zenon DEF Page
<1>4. page' = p /\ session' = None /\ Answered(i) /\ UNCHANGED <<log, stream, reloads>>
  BY DEF RecoveryFails, eventVars
<1> HIDE DEF p
<1>5. Shown(p)
  BY <1>1, <1>2, <1>3 DEF Shown
<1>6. SoundPage(page', stream', log)
  BY <1>4, <1>5, StayingIsSound
<1>7. calls' \in [Slots -> Call \cup {NoCall}] /\ \A j \in Slots : SoundCall(calls'[j], log)
  BY <1>4, AnsweredIsSound
<1>8. SoundSession(session', log)
  BY <1>4 DEF SoundSession
<1> QED
  BY <1>4, <1>6, <1>7, <1>8, SoundNext DEF Sound

\* What is in transit is an event of the run that is followed.
LEMMA EventInTransit ==
  ASSUME Sound, InTransit
  PROVE  /\ stream \in Stream /\ stream.run = page.active /\ page.active \in Runs
         /\ stream.received \in Nat /\ stream.cursor \in Nat
         /\ NextEvent.sequence = stream.received + 1 /\ NextEvent.state \in RunState
<1>1. /\ stream \in Stream /\ stream.run = page.active /\ stream.received < stream.cursor
      /\ stream.cursor <= Len(log[stream.run])
  BY DEF Sound, SoundPage, InTransit
<1>2. stream.run \in Runs /\ stream.received \in Nat /\ stream.cursor \in Nat
  BY <1>1 DEF Stream
<1>3. log[stream.run] \in Seq(RunState) /\ Len(log[stream.run]) \in Nat
  BY <1>2, LenProperties DEF Sound
<1>4. stream.received + 1 \in 1..Len(log[stream.run])
  BY <1>1, <1>2, <1>3
<1>5. log[stream.run][stream.received + 1] \in RunState
  BY <1>3, <1>4, ElementOfSeq
<1> QED
  BY <1>1, <1>2, <1>5 DEF NextEvent

\* A state that an event tells of is shown on the run that is shown.
LEMMA WithStateIsPage ==
  ASSUME NEW p \in Page, NEW s \in RunState
  PROVE  LET q == WithState(p, s)
         IN  /\ q \in Page
             /\ q.active = p.active /\ q.reconciling = p.reconciling
             /\ q.handling = p.handling /\ q.lost = p.lost
             /\ q.lastSequence = p.lastSequence /\ q.events = p.events
             /\ q.recovering = p.recovering /\ q.strayed = p.strayed
             /\ p.run = None => q.run = None
             /\ p.run # None => q.run # None /\ q.run.run = p.run.run
<1> DEFINE view == IF p.run = None THEN None ELSE [p.run EXCEPT !.state = s]
           q == [p EXCEPT !.target = None, !.run = view]
<1>1. p.run \in RunView \cup {None}
  BY DEF Page
<1>2. p.run # None => [p.run EXCEPT !.state = s] \in RunView /\ [p.run EXCEPT !.state = s].run = p.run.run
  BY <1>1 DEF RunView
<1>3. /\ view \in RunView \cup {None}
      /\ p.run = None => view = None
      /\ p.run # None => view # None /\ view.run = p.run.run
  BY <1>2, NoneAssumption
<1>4. WithState(p, s) = q
  BY DEF WithState, Page
<1> HIDE DEF view
<1>5. q \in Page
  BY <1>3, Zenon DEF Page
<1>6. /\ q.active = p.active /\ q.reconciling = p.reconciling
      /\ q.handling = p.handling /\ q.lost = p.lost
      /\ q.lastSequence = p.lastSequence /\ q.events = p.events
      /\ q.recovering = p.recovering /\ q.strayed = p.strayed /\ q.run = view
  BY Zenon DEF Page
<1> HIDE DEF q
<1> QED
  BY <1>3, <1>4, <1>5, <1>6

\* Asking for the durable run of a page that follows one.
LEMMA RequestIsPage ==
  ASSUME Sound, NEW p \in Page, p.active = page.active, page.active # None
  PROVE  LET q == RequestReconcile(p)
         IN  /\ q \in Page
             /\ q.active = p.active /\ q.run = p.run
             /\ q.handling = p.handling /\ q.lost = p.lost
             /\ q.lastSequence = p.lastSequence /\ q.events = p.events
             /\ q.recovering = p.recovering /\ q.strayed = p.strayed
             /\ q.reconciling = p.reconciling \/ q.reconciling >= 1
<1> DEFINE n == Len(log[p.active])
<1>1. n \in Nat /\ n >= 1
  BY PageIsShown, StateOfRun
<1>2. \/ RequestReconcile(p) = [p EXCEPT !.reconciling = n, !.again = FALSE]
      \/ RequestReconcile(p) = [p EXCEPT !.again = TRUE]
  BY DEF RequestReconcile
<1> HIDE DEF n
<1>3. ASSUME NEW q, q = [p EXCEPT !.reconciling = n, !.again = FALSE]
      PROVE  /\ q \in Page
             /\ q.active = p.active /\ q.run = p.run
             /\ q.handling = p.handling /\ q.lost = p.lost
             /\ q.lastSequence = p.lastSequence /\ q.events = p.events
             /\ q.recovering = p.recovering /\ q.reconciling = n
             /\ q.strayed = p.strayed
  <2>1. q \in Page
    BY <1>1, <1>3, Zenon DEF Page
  <2> QED
    BY <1>3, <2>1, Zenon DEF Page
<1>4. ASSUME NEW q, q = [p EXCEPT !.again = TRUE]
      PROVE  /\ q \in Page
             /\ q.active = p.active /\ q.run = p.run
             /\ q.handling = p.handling /\ q.lost = p.lost
             /\ q.lastSequence = p.lastSequence /\ q.events = p.events
             /\ q.recovering = p.recovering /\ q.reconciling = p.reconciling
             /\ q.strayed = p.strayed
  <2>1. q \in Page
    BY <1>4, Zenon DEF Page
  <2> QED
    BY <1>4, <2>1, Zenon DEF Page
<1> QED
  BY <1>1, <1>2, <1>3, <1>4

\* What onEvent does to a page, for an event it has not seen.
LEMMA EventIsShown ==
  ASSUME Sound, InTransit, OnEvent, ~ NextEvent.sequence <= page.lastSequence
  PROVE  /\ page' \in Page
         /\ page'.active = page.active /\ page'.handling = page.handling
         /\ page'.lost = page.lost /\ page'.recovering = page.recovering
         /\ page'.strayed = page.strayed
         /\ page'.lastSequence = NextEvent.sequence
         /\ page'.events = Append(page.events, [run |-> page.active,
                                                sequence |-> NextEvent.sequence])
         /\ page'.reconciling = page.reconciling \/ page'.reconciling >= 1
         /\ page.run = None => page'.run = None
         /\ page.run # None => page'.run # None /\ page'.run.run = page.run.run
         /\ session' = [run |-> page.active, sequence |-> NextEvent.sequence]
<1> DEFINE s     == NextEvent.state
           n     == NextEvent.sequence
           e     == Append(page.events, [run |-> page.active, sequence |-> n])
           shown == [page EXCEPT !.lastSequence = n, !.events = e]
           moved == IF TargetReached(s) THEN WithState(shown, s) ELSE shown
<1>1. /\ page \in Page /\ page.active \in Runs /\ page.active # None
      /\ n \in Nat /\ s \in RunState
  BY PageIsShown, EventInTransit, NoneAssumption
<1>2. page.events \in Events
  BY <1>1 DEF Page
<1>3. e \in Events
  BY <1>1, <1>2, AppendProperties DEF Events, Event
<1>4. /\ page' = IF TargetReached(s) /\ s \in StreamEndStates
                 THEN RequestReconcile(moved) ELSE moved
      /\ session' = [run |-> page.active, sequence |-> n]
  BY DEF OnEvent
<1>5. shown \in Page
  <2> HIDE DEF n, e
  <2> QED
    BY <1>1, <1>3, Zenon DEF Page
<1>6. /\ shown.active = page.active /\ shown.handling = page.handling
      /\ shown.lost = page.lost /\ shown.recovering = page.recovering
      /\ shown.strayed = page.strayed
      /\ shown.lastSequence = n /\ shown.events = e
      /\ shown.reconciling = page.reconciling /\ shown.run = page.run
  <2> HIDE DEF n, e
  <2> QED
    BY <1>1, <1>3, Zenon DEF Page
<1> HIDE DEF shown, n, e, s
<1>7. /\ moved \in Page
      /\ moved.active = page.active /\ moved.handling = page.handling
      /\ moved.lost = page.lost /\ moved.recovering = page.recovering
      /\ moved.strayed = page.strayed
      /\ moved.lastSequence = n /\ moved.events = e
      /\ moved.reconciling = page.reconciling
      /\ page.run = None => moved.run = None
      /\ page.run # None => moved.run # None /\ moved.run.run = page.run.run
  <2>1. CASE TargetReached(s)
    BY <1>1, <1>5, <1>6, <2>1, WithStateIsPage
  <2>2. CASE ~ TargetReached(s)
    BY <1>5, <1>6, <2>2
  <2> QED
    BY <2>1, <2>2
<1> HIDE DEF moved
<1>8. CASE page' = moved
  BY <1>4, <1>7, <1>8 DEF n, e
<1>9. CASE page' = RequestReconcile(moved)
  BY <1>1, <1>4, <1>7, <1>9, RequestIsPage DEF n, e
<1> QED
  BY <1>4, <1>8, <1>9

\* The event that is handled is no longer in transit.
LEMMA StreamAdvances ==
  ASSUME Sound, InTransit, OnEvent
  PROVE  /\ stream' \in Stream /\ stream' # NoStream
         /\ stream'.run = stream.run /\ stream'.cursor = stream.cursor
         /\ stream'.received = stream.received + 1
         /\ UNCHANGED <<log, calls, reloads>>
<1>1. /\ stream \in Stream /\ stream # NoStream
      /\ stream' = [stream EXCEPT !.received = stream.received + 1]
      /\ stream.received \in Nat
  BY EventInTransit DEF OnEvent, InTransit
<1>2. stream' \in Stream
  <2>1. stream.received + 1 \in Nat
    BY <1>1
  <2> HIDE DEF Stream
  <2> QED
    BY <1>1, <2>1 DEF Stream
<1>3. /\ stream'.run = stream.run /\ stream'.cursor = stream.cursor
      /\ stream'.received = stream.received + 1
  BY <1>1 DEF Stream
<1>4. stream'.run \in Runs
  BY <1>2 DEF Stream
<1>5. stream' # NoStream
  BY <1>4, NoneAssumption DEF NoStream
<1> QED
  BY <1>2, <1>3, <1>5 DEF OnEvent

\* Sound is kept by onEvent.
LEMMA OnEventIsSound ==
  ASSUME Sound, OnEvent
  PROVE  Sound'
<1>1. InTransit /\ SoundPage(page, stream, log) /\ stream # NoStream
  BY DEF Sound, OnEvent, InTransit
<1>2. /\ stream' \in Stream /\ stream' # NoStream
      /\ stream'.run = stream.run /\ stream'.cursor = stream.cursor
      /\ stream'.received = stream.received + 1
      /\ UNCHANGED <<log, calls, reloads>>
  BY <1>1, StreamAdvances
<1>3. /\ stream.run = page.active /\ page.active \in Runs /\ page.active # None
      /\ NextEvent.sequence \in Nat /\ stream.received \in Nat /\ stream.cursor \in Nat
  BY <1>1, EventInTransit, NoneAssumption
<1>4. stream'.cursor <= Len(log[stream.run])
  BY <1>1, <1>2 DEF SoundPage, InTransit
<1>5. CASE NextEvent.sequence <= page.lastSequence
  <2>1. UNCHANGED <<page, session>>
    BY <1>5 DEF OnEvent
  <2>2. SoundPage(page', stream', log)
    BY <1>1, <1>2, <1>3, <1>4, <2>1 DEF SoundPage
  <2> QED
    BY <1>2, <2>1, <2>2, SoundNext DEF Sound
<1>6. CASE ~ NextEvent.sequence <= page.lastSequence
  <2>1. /\ page' \in Page
        /\ page'.active = page.active /\ page'.handling = page.handling
        /\ page'.reconciling = page.reconciling \/ page'.reconciling >= 1
        /\ page.run = None => page'.run = None
        /\ page.run # None => page'.run # None /\ page'.run.run = page.run.run
        /\ session' = [run |-> page.active, sequence |-> NextEvent.sequence]
    BY <1>1, <1>6, EventIsShown
  <2>2. page'.reconciling # None => page'.reconciling >= 1
    BY <1>1, <2>1 DEF SoundPage
  <2>3. SoundPage(page', stream', log)
    BY <1>1, <1>2, <1>3, <1>4, <2>1, <2>2 DEF SoundPage
  <2>4. SoundSession(session', log)
    BY <1>1, <1>3, <2>1 DEF SoundSession, SoundPage, Event
  <2> QED
    BY <1>2, <2>3, <2>4, SoundNext DEF Sound
<1> QED
  BY <1>5, <1>6

\* A page that is settled shows the view, and follows no run.
LEMMA SettleIsSound ==
  ASSUME Sound, NEW view \in RunView, Exists(view.run), Settle(view)
  PROVE  SoundPage(page', stream', log)
<1> DEFINE p == [page EXCEPT !.run = view, !.target = None, !.error = FALSE, !.busy = FALSE]
<1>1. Shown(p)
  BY PageIsShown, ViewIsShown
<1>2. SetActive(p, None)
  BY DEF Settle
<1> HIDE DEF p
<1> QED
  BY <1>1, <1>2, GoingIsSound

\* The next round of a reconciliation, or its end.
LEMMA NextRoundIsPage ==
  ASSUME Sound, NEW p \in Page, p.active = page.active, page.active # None
  PROVE  LET q == NextRound(p)
         IN  /\ q \in Page
             /\ q.active = p.active /\ q.run = p.run
             /\ q.handling = p.handling /\ q.lost = p.lost
             /\ q.lastSequence = p.lastSequence /\ q.events = p.events
             /\ q.recovering = p.recovering /\ q.strayed = p.strayed
             /\ q.reconciling = None \/ q.reconciling >= 1
<1> DEFINE n == Len(log[p.active])
<1>1. n \in Nat /\ n >= 1
  BY PageIsShown, StateOfRun
<1>2. \/ NextRound(p) = [p EXCEPT !.again = FALSE, !.reconciling = n]
      \/ NextRound(p) = [p EXCEPT !.reconciling = None]
  BY DEF NextRound
<1> HIDE DEF n
<1>3. ASSUME NEW q, q = [p EXCEPT !.again = FALSE, !.reconciling = n]
      PROVE  /\ q \in Page
             /\ q.active = p.active /\ q.run = p.run
             /\ q.handling = p.handling /\ q.lost = p.lost
             /\ q.lastSequence = p.lastSequence /\ q.events = p.events
             /\ q.recovering = p.recovering /\ q.reconciling = n
             /\ q.strayed = p.strayed
  <2>1. q \in Page
    BY <1>1, <1>3, Zenon DEF Page
  <2> QED
    BY <1>3, <2>1, Zenon DEF Page
<1>4. ASSUME NEW q, q = [p EXCEPT !.reconciling = None]
      PROVE  /\ q \in Page
             /\ q.active = p.active /\ q.run = p.run
             /\ q.handling = p.handling /\ q.lost = p.lost
             /\ q.lastSequence = p.lastSequence /\ q.events = p.events
             /\ q.recovering = p.recovering /\ q.reconciling = None
             /\ q.strayed = p.strayed
  <2>1. q \in Page
    BY <1>4, Zenon DEF Page
  <2> QED
    BY <1>4, <2>1, Zenon DEF Page
<1> QED
  BY <1>1, <1>2, <1>3, <1>4

\* What differs in a page that goes on following its run.
Follows(q) ==
  /\ q \in Page /\ q.active = page.active
  /\ q.lastSequence = page.lastSequence /\ q.events = page.events
  /\ q.recovering = page.recovering /\ q.strayed = page.strayed
  /\ \/ q.run = page.run
     \/ q.run \in RunView /\ q.run # None /\ q.run.run = page.active

\* The page settles on a view of the run it follows, in an end state.
Settles ==
  \E view \in RunView :
    /\ view.run = page.active /\ Exists(view.run)
    /\ view.state \in StreamEndStates /\ Settle(view)

\* A view of the run that is followed may be shown.
LEMMA ViewIsFollowed ==
  ASSUME Sound, page.active # None, NEW view \in RunView, view.run = page.active
  PROVE  LET q == [page EXCEPT !.run = view]
         IN  /\ Follows(q) /\ q.handling = page.handling /\ q.lost = page.lost
             /\ q.reconciling = page.reconciling /\ q.reconnects = page.reconnects
<1> DEFINE q == [page EXCEPT !.run = view]
<1>1. page \in Page
  BY PageIsShown
<1>2. q \in Page
  BY <1>1, Zenon DEF Page
<1>3. /\ q.active = page.active /\ q.lastSequence = page.lastSequence
      /\ q.events = page.events /\ q.recovering = page.recovering /\ q.run = view
      /\ q.strayed = page.strayed
      /\ q.handling = page.handling /\ q.lost = page.lost
      /\ q.reconciling = page.reconciling /\ q.reconnects = page.reconnects
  BY <1>1, Zenon DEF Page
<1> HIDE DEF q
<1>4. view # None
  BY NoneAssumption
<1>5. Follows(q)
  BY <1>2, <1>3, <1>4 DEF Follows
<1> QED
  BY <1>3, <1>5 DEF q

\* The answer to reconcile(): the page settles, or goes on following.
LEMMA ReconcileCases ==
  ASSUME Sound, ReconcileAnswered
  PROVE  /\ page.active \in Runs /\ Exists(page.active)
         /\ \/ Settles
            \/ /\ Follows(page') /\ UNCHANGED stream
               /\ page'.handling = page.handling /\ page'.lost = page.lost
               /\ page'.reconciling = None \/ page'.reconciling >= 1
<1>1. /\ page.reconciling # None /\ page.active # None /\ page.reconciling \in Nat
      /\ page.reconciling >= 1 /\ page \in Page
  <2>1. page.reconciling # None
    BY DEF ReconcileAnswered
  <2>2. page \in Page
    BY PageIsShown
  <2>3. page.reconciling \in Nat \cup {None}
    BY <2>2 DEF Page
  <2> QED
    BY <2>1, <2>2, <2>3 DEF Sound, SoundPage
<1>2. page.active \in Runs /\ Exists(page.active) /\ log \in [Runs -> Seq(RunState)]
  BY <1>1, PageIsShown
<1>3. ASSUME NEW q, Follows(q), q.handling = page.handling, q.lost = page.lost,
             page' = NextRound(q), UNCHANGED stream
      PROVE  /\ Follows(page') /\ UNCHANGED stream
             /\ page'.handling = page.handling /\ page'.lost = page.lost
             /\ page'.reconciling = None \/ page'.reconciling >= 1
  <2>1. q \in Page /\ q.active = page.active
    BY <1>3 DEF Follows
  <2> QED
    BY <1>1, <1>3, <2>1, NextRoundIsPage DEF Follows
<1>4. CASE \E view \in Answers(page.active, page.reconciling) : Reconciled(view)
  <2>1. PICK view \in Answers(page.active, page.reconciling) : Reconciled(view)
    BY <1>4
  <2>2. view \in RunView /\ view.run = page.active
    BY <1>1, <1>2, AnswerIsView
  <2>3. CASE view.state \in StreamEndStates
    BY <1>2, <2>1, <2>2, <2>3 DEF Reconciled, Settles
  <2>4. CASE view.state \notin StreamEndStates
    <3> DEFINE q == [page EXCEPT !.run = view]
    <3>1. page' = NextRound(q) /\ UNCHANGED stream
      BY <2>1, <2>4 DEF Reconciled
    <3>2. Follows(q) /\ q.handling = page.handling /\ q.lost = page.lost
      BY <1>1, <2>2, ViewIsFollowed
    <3> HIDE DEF q
    <3> QED
      BY <1>2, <1>3, <3>1, <3>2
  <2> QED
    BY <2>3, <2>4
<1>5. CASE /\ page' = NextRound([page EXCEPT !.error = TRUE, !.busy = FALSE])
           /\ UNCHANGED stream
  <2> DEFINE q == [page EXCEPT !.error = TRUE, !.busy = FALSE]
  <2>1. q \in Page
    BY <1>1, Zenon DEF Page
  <2>2. /\ q.active = page.active /\ q.lastSequence = page.lastSequence
        /\ q.events = page.events /\ q.recovering = page.recovering /\ q.run = page.run
        /\ q.strayed = page.strayed
        /\ q.handling = page.handling /\ q.lost = page.lost
    BY <1>1, Zenon DEF Page
  <2>3. page' = NextRound(q) /\ UNCHANGED stream
    BY <1>5
  <2> HIDE DEF q
  <2>4. Follows(q)
    BY <2>1, <2>2 DEF Follows
  <2> QED
    BY <1>2, <1>3, <2>2, <2>3, <2>4
<1> QED
  BY <1>2, <1>4, <1>5 DEF ReconcileAnswered

\* A page that goes on following its run is sound.
LEMMA FollowingIsSound ==
  ASSUME Sound, Follows(page'), page.active # None, UNCHANGED log,
         stream' \in Stream \cup {NoStream}, stream' # NoStream => stream'.run = page.active,
         stream' # NoStream /\ stream'.received < stream'.cursor
           => stream'.cursor <= Len(log[stream'.run]),
         page'.reconciling = None \/ page'.reconciling >= 1,
         page'.handling = None \/ page'.handling >= 1
  PROVE  SoundPage(page', stream', log)
<1>1. page' \in Page /\ page'.active = page.active
  BY DEF Follows
<1>2. Exists(page.active) /\ (page.run # None => Exists(page.run.run))
  BY PageIsShown
<1>3. page'.run # None => Exists(page'.run.run)
  BY <1>2 DEF Follows
<1> QED
  BY <1>1, <1>2, <1>3 DEF SoundPage, Known, Exists

\* Sound is kept by the answer to reconcile().
LEMMA ReconcileIsSound ==
  ASSUME Sound, ReconcileAnswered
  PROVE  Sound'
<1>1. UNCHANGED <<log, calls, session, reloads>>
  BY DEF ReconcileAnswered
<1>2. page.active \in Runs /\ Exists(page.active) /\ page.active # None
  BY ReconcileCases, NoneAssumption
<1>3. SoundPage(page', stream', log)
  <2>1. CASE Settles
    BY <2>1, SettleIsSound DEF Settles
  <2>2. CASE /\ Follows(page') /\ UNCHANGED stream
             /\ page'.handling = page.handling
             /\ page'.reconciling = None \/ page'.reconciling >= 1
    <3>1. /\ stream \in Stream \cup {NoStream} /\ (stream # NoStream => stream.run = page.active)
          /\ (stream # NoStream /\ stream.received < stream.cursor
                => stream.cursor <= Len(log[stream.run]))
          /\ (page.handling = None \/ page.handling >= 1)
      BY DEF Sound, SoundPage
    <3> QED
      BY <1>1, <1>2, <2>2, <3>1, FollowingIsSound
  <2> QED
    BY <2>1, <2>2, ReconcileCases
<1> QED
  BY <1>1, <1>3, SoundNext DEF Sound

\* onError: the stream is left, and the run is asked for.
LEMMA StreamErrorAsks ==
  ASSUME Sound, OnStreamError
  PROVE  /\ page.active \in Runs /\ page.active # None
         /\ Follows(page') /\ page'.reconciling = page.reconciling
         /\ page'.run = page.run /\ page'.lost = page.lost
         /\ page'.handling \in Nat /\ page'.handling >= 1
         /\ stream' = NoStream /\ UNCHANGED <<log, calls, session, reloads>>
<1> DEFINE n == Len(log[page.active])
           q == [page EXCEPT !.handling = n]
<1>1. stream # NoStream /\ page' = q /\ stream' = NoStream /\ UNCHANGED <<log, calls, session, reloads>>
  BY DEF OnStreamError
<1>2. page.active # None
  BY <1>1 DEF Sound, SoundPage
<1>3. page \in Page /\ page.active \in Runs /\ n \in Nat /\ n >= 1
  BY <1>2, PageIsShown, StateOfRun
<1> HIDE DEF n
<1>4. q \in Page
  BY <1>3, Zenon DEF Page
<1>5. /\ q.active = page.active /\ q.lastSequence = page.lastSequence
      /\ q.events = page.events /\ q.recovering = page.recovering /\ q.run = page.run
      /\ q.strayed = page.strayed
      /\ q.reconciling = page.reconciling /\ q.lost = page.lost /\ q.handling = n
  BY <1>3, Zenon DEF Page
<1> HIDE DEF q
<1>6. Follows(q)
  BY <1>4, <1>5 DEF Follows
<1> QED
  BY <1>1, <1>2, <1>3, <1>5, <1>6

\* Sound is kept by onError.
LEMMA OnStreamErrorIsSound ==
  ASSUME Sound, OnStreamError
  PROVE  Sound'
<1>1. /\ page.active # None /\ Follows(page') /\ page'.reconciling = page.reconciling
      /\ page'.handling >= 1 /\ stream' = NoStream
      /\ UNCHANGED <<log, calls, session, reloads>>
  BY StreamErrorAsks
<1>2. page.reconciling = None \/ page.reconciling >= 1
  BY DEF Sound, SoundPage
<1>3. SoundPage(page', stream', log)
  BY <1>1, <1>2, FollowingIsSound
<1> QED
  BY <1>1, <1>3, SoundNext DEF Sound

\* One reconnection, after the last event shown, or the user is told.
LEMMA ReconnectCases ==
  ASSUME Sound, NEW q, Follows(q), q.reconciling = page.reconciling, q.lost = page.lost,
         Reconnect(q)
  PROVE  /\ Follows(page') /\ page'.reconciling = page.reconciling /\ page'.handling = None
         /\ \/ stream' = Opened(page.active, page.lastSequence) /\ page'.lost = page.lost
            \/ UNCHANGED stream /\ page'.lost = TRUE
<1>1. q \in Page /\ q.active = page.active /\ q.lastSequence = page.lastSequence
  BY DEF Follows
<1>2. q.reconnects \in 0..1
  BY <1>1 DEF Page
<1>3. CASE q.reconnects < 1
  <2> DEFINE m == q.reconnects + 1
             p == [q EXCEPT !.handling = None, !.reconnects = m]
  <2>1. m \in 0..1
    BY <1>2, <1>3
  <2>2. page' = p /\ stream' = Opened(page.active, page.lastSequence)
    BY <1>1, <1>3 DEF Reconnect, Page
  <2> HIDE DEF m
  <2>3. p \in Page
    BY <1>1, <2>1, Zenon DEF Page
  <2>4. /\ p.active = q.active /\ p.lastSequence = q.lastSequence
        /\ p.events = q.events /\ p.recovering = q.recovering /\ p.run = q.run
        /\ p.strayed = q.strayed
        /\ p.reconciling = q.reconciling /\ p.lost = q.lost /\ p.handling = None
    BY <1>1, Zenon DEF Page
  <2> HIDE DEF p
  <2>5. Follows(p)
    BY <2>3, <2>4 DEF Follows
  <2> QED
    BY <2>2, <2>4, <2>5
<1>4. CASE ~ q.reconnects < 1
  <2> DEFINE p == [[q EXCEPT !.handling = None] EXCEPT !.error = TRUE, !.busy = FALSE, !.lost = TRUE]
  <2>1. page' = p /\ UNCHANGED stream
    BY <1>4 DEF Reconnect, GiveUp
  <2>2. [q EXCEPT !.handling = None] \in Page
    BY <1>1, Zenon DEF Page
  <2>3. p \in Page
    BY <2>2, Zenon DEF Page
  <2>4. /\ p.active = q.active /\ p.lastSequence = q.lastSequence
        /\ p.events = q.events /\ p.recovering = q.recovering /\ p.run = q.run
        /\ p.strayed = q.strayed
        /\ p.reconciling = q.reconciling /\ p.handling = None
    BY <1>1, Zenon DEF Page
  <2>5. p.lost = TRUE
    BY <2>2, Zenon DEF Page
  <2> HIDE DEF p
  <2>6. Follows(p)
    BY <2>3, <2>4 DEF Follows
  <2> QED
    BY <2>1, <2>4, <2>5, <2>6
<1> QED
  BY <1>3, <1>4

\* The answer to handleStreamError(): the page settles, connects again once, or
\* tells the user.
LEMMA StreamErrorCases ==
  ASSUME Sound, StreamErrorAnswered
  PROVE  /\ page.active \in Runs /\ Exists(page.active)
         /\ \/ Settles
            \/ /\ Follows(page') /\ page'.reconciling = page.reconciling /\ page'.handling = None
               /\ \/ stream' = Opened(page.active, page.lastSequence) /\ page'.lost = page.lost
                  \/ UNCHANGED stream /\ page'.lost = TRUE
<1>1. /\ page.handling # None /\ page.active # None /\ page.handling \in Nat
      /\ page.handling >= 1 /\ page \in Page
  <2>1. page.handling # None
    BY DEF StreamErrorAnswered
  <2>2. page \in Page
    BY PageIsShown
  <2>3. page.handling \in Nat \cup {None}
    BY <2>2 DEF Page
  <2> QED
    BY <2>1, <2>2, <2>3 DEF Sound, SoundPage
<1>2. page.active \in Runs /\ Exists(page.active) /\ log \in [Runs -> Seq(RunState)]
  BY <1>1, PageIsShown
<1>3. CASE \E view \in Answers(page.active, page.handling) :
             IF view.state \in StreamEndStates
             THEN Settle(view) ELSE Reconnect([page EXCEPT !.run = view])
  <2>1. PICK view \in Answers(page.active, page.handling) :
             IF view.state \in StreamEndStates
             THEN Settle(view) ELSE Reconnect([page EXCEPT !.run = view])
    BY <1>3
  <2>2. view \in RunView /\ view.run = page.active
    BY <1>1, <1>2, AnswerIsView
  <2>3. CASE view.state \in StreamEndStates
    BY <1>2, <2>1, <2>2, <2>3 DEF Settles
  <2>4. CASE view.state \notin StreamEndStates
    <3> DEFINE q == [page EXCEPT !.run = view]
    <3>1. Reconnect(q)
      BY <2>1, <2>4
    <3>2. Follows(q) /\ q.lost = page.lost /\ q.reconciling = page.reconciling
      BY <1>1, <2>2, ViewIsFollowed
    <3> HIDE DEF q
    <3> QED
      BY <1>2, <3>1, <3>2, ReconnectCases
  <2> QED
    BY <2>3, <2>4
<1>4. CASE Reconnect(page)
  <2>1. Follows(page)
    BY <1>1 DEF Follows
  <2> QED
    BY <1>2, <1>4, <2>1, ReconnectCases
<1> QED
  BY <1>3, <1>4 DEF StreamErrorAnswered

\* Sound is kept by the answer to handleStreamError().
LEMMA StreamErrorAnsweredIsSound ==
  ASSUME Sound, StreamErrorAnswered
  PROVE  Sound'
<1>1. UNCHANGED <<log, calls, session, reloads>>
  BY DEF StreamErrorAnswered
<1>2. page.active \in Runs /\ Exists(page.active) /\ page.active # None
  BY StreamErrorCases, NoneAssumption
<1>3. /\ stream \in Stream \cup {NoStream} /\ (stream # NoStream => stream.run = page.active)
      /\ (stream # NoStream /\ stream.received < stream.cursor
            => stream.cursor <= Len(log[stream.run]))
      /\ (page.reconciling = None \/ page.reconciling >= 1)
      /\ page.lastSequence \in Nat
  BY DEF Sound, SoundPage, Page
<1>4. LET s == Opened(page.active, page.lastSequence)
      IN  s \in Stream /\ s.run = page.active /\ ~ s.received < s.cursor
  BY <1>2, <1>3, OpenedIsStream
<1>5. SoundPage(page', stream', log)
  <2>1. CASE Settles
    BY <2>1, SettleIsSound DEF Settles
  <2>2. CASE /\ Follows(page') /\ page'.reconciling = page.reconciling /\ page'.handling = None
             /\ stream' = Opened(page.active, page.lastSequence)
    BY <1>1, <1>2, <1>3, <1>4, <2>2, FollowingIsSound
  <2>3. CASE /\ Follows(page') /\ page'.reconciling = page.reconciling /\ page'.handling = None
             /\ UNCHANGED stream
    BY <1>1, <1>2, <1>3, <2>3, FollowingIsSound
  <2> QED
    BY <2>1, <2>2, <2>3, StreamErrorCases
<1> QED
  BY <1>1, <1>5, SoundNext DEF Sound

\* Every step keeps Sound.
LEMMA SoundStep == Sound /\ [Next]_vars => Sound'
<1> SUFFICES ASSUME Sound, [Next]_vars PROVE Sound'
  OBVIOUS
<1>1. CASE Environment
  <2>1. PICK r \in Runs : Transition(r) /\ UNCHANGED pageVars
    BY <1>1 DEF Environment
  <2>2. UNCHANGED stream
    BY <2>1 DEF Transition
  <2> QED
    BY <2>1, <2>2, LogStepIsSound
<1>2. CASE ServerPolls
  BY <1>2, ServeIsSound
<1>3. ASSUME NEW i \in Slots,
             \/ \E r \in Runs : Analyze(i, r)
             \/ ServeCreate(i) \/ Approve(i) \/ Continue(i)
      PROVE  Sound'
  BY <1>3, AnalyzeIsSound, ServeCreateIsSound, ApproveIsSound, ContinueIsSound
<1>4. ASSUME NEW i \in Slots, HandlerAnswered(i)
      PROVE  Sound'
  <2>1. CASE CreateAnswered(i) \/ CallFails(i) \/ ApproveAnswered(i) \/ ContinueAnswered(i)
    BY <2>1, CreateAnsweredIsSound, CallFailsIsSound, ApproveAnsweredIsSound,
       ContinueAnsweredIsSound
  <2>2. CASE ApprovedAnswered(i) \/ RefreshAnswered(i) \/ Recovered(i) \/ RecoveryFails(i)
    BY <2>2, ApprovedAnsweredIsSound, RefreshAnsweredIsSound, RecoveredIsSound,
       RecoveryFailsIsSound
  <2> QED
    BY <1>4, <2>1, <2>2 DEF HandlerAnswered
<1>5. CASE Reset \/ Reload \/ OnEvent
  BY <1>5, ResetIsSound, ReloadIsSound, OnEventIsSound
<1>6. CASE ReconcileAnswered \/ OnStreamError \/ StreamErrorAnswered
  BY <1>6, ReconcileIsSound, OnStreamErrorIsSound, StreamErrorAnsweredIsSound
<1>7. CASE UNCHANGED vars
  BY <1>7 DEF vars, eventVars, pageVars, Sound
<1> QED
  BY <1>1, <1>2, <1>3, <1>4, <1>5, <1>6, <1>7 DEF Next

\* What the page follows, shows, asks for and has saved exists, in every state.
THEOREM Soundness == Spec => []Sound
BY InitIsSound, SoundStep, PTL DEF Spec

\* The variables of the page, its stream and the log keep their types, whatever
\* races; the page never follows the stream of another run than its own.
THEOREM TypeCorrect == Spec => []TypeOK
<1>1. Sound => TypeOK
  BY DEF Sound, SoundPage, SoundSession, TypeOK, EventTypeOK
<1> QED
  BY <1>1, Soundness, PTL

-----------------------------------------------------------------------------
(* The server closes a stream only after all it has stored.                *)

\* The page leaves the stream as it is, leaves it, or opens one.
LeavesOpen == stream' = stream \/ stream' = NoStream \/ stream'.pc = "run"

\* So does the effect on activeRunId.
LEMMA SetActiveLeavesOpen ==
  ASSUME NEW p, NEW r, SetActive(p, r)
  PROVE  LeavesOpen
BY DEF SetActive, Opened, LeavesOpen

\* So does every handler of a call.
LEMMA HandlersLeaveOpen ==
  ASSUME NEW i \in Slots,
         \/ \E r \in Runs : Analyze(i, r)
         \/ ServeCreate(i) \/ Approve(i) \/ Continue(i) \/ HandlerAnswered(i)
  PROVE  LeavesOpen
<1>1. CASE (\E r \in Runs : Analyze(i, r)) \/ ServeCreate(i) \/ Continue(i)
  BY <1>1 DEF Analyze, ServeCreate, Continue, eventVars, LeavesOpen
<1>2. CASE Approve(i)
  BY <1>2, SetActiveLeavesOpen DEF Approve
<1>3. CASE HandlerAnswered(i)
  <2>1. CASE CreateAnswered(i)
    BY <2>1, SetActiveLeavesOpen DEF CreateAnswered
  <2>2. CASE CallFails(i) \/ ApproveAnswered(i) \/ RecoveryFails(i)
    BY <2>2 DEF CallFails, ApproveAnswered, RecoveryFails, eventVars, LeavesOpen
  <2>3. CASE ContinueAnswered(i)
    BY <2>3, SetActiveLeavesOpen DEF ContinueAnswered
  <2>4. CASE Recovered(i)
    BY <2>4, SetActiveLeavesOpen DEF Recovered
  <2>5. ASSUME NEW p, NEW view, ShowFinal(p, view)
        PROVE  LeavesOpen
    BY <2>5, SetActiveLeavesOpen DEF ShowFinal
  <2>6. CASE ApprovedAnswered(i)
    BY <2>5, <2>6 DEF ApprovedAnswered, LeavesOpen
  <2>7. CASE RefreshAnswered(i)
    BY <2>5, <2>7 DEF RefreshAnswered, LeavesOpen
  <2> QED
    BY <1>3, <2>1, <2>2, <2>3, <2>4, <2>6, <2>7 DEF HandlerAnswered
<1> QED
  BY <1>1, <1>2, <1>3

\* So do the other steps of the page, but for onEvent.
LEMMA PageLeavesOpen ==
  ASSUME Reset \/ Reload \/ ReconcileAnswered \/ OnStreamError \/ StreamErrorAnswered
  PROVE  LeavesOpen
<1>1. CASE Reset
  BY <1>1, SetActiveLeavesOpen DEF Reset
<1>2. CASE Reload \/ OnStreamError
  BY <1>2 DEF Reload, OnStreamError, LeavesOpen
<1>3. ASSUME NEW view, Settle(view)
      PROVE  LeavesOpen
  BY <1>3, SetActiveLeavesOpen DEF Settle
<1>4. CASE ReconcileAnswered
  BY <1>3, <1>4 DEF ReconcileAnswered, Reconciled, LeavesOpen
<1>5. ASSUME NEW p, Reconnect(p)
      PROVE  LeavesOpen
  BY <1>5 DEF Reconnect, Opened, LeavesOpen
<1>6. CASE StreamErrorAnswered
  BY <1>3, <1>5, <1>6 DEF StreamErrorAnswered
<1> QED
  BY <1>1, <1>2, <1>4, <1>6

\* A stream that closes has yielded all that is stored by then.
ClosesAfterAll ==
  (stream' # NoStream /\ stream'.pc = "closed" /\ stream.pc # "closed") =>
    stream'.cursor >= Len(log[stream.run])

\* Only Recheck closes a stream, and it compares the log with what was yielded.
LEMMA ClosingStep == Sound /\ [Next]_vars => ClosesAfterAll
<1> SUFFICES ASSUME Sound, [Next]_vars, stream' # NoStream, stream'.pc = "closed",
                    stream.pc # "closed"
             PROVE  stream'.cursor >= Len(log[stream.run])
  BY DEF ClosesAfterAll
<1>1. ~ LeavesOpen
  BY DEF LeavesOpen
<1>2. ServerPolls \/ OnEvent
  BY <1>1, HandlersLeaveOpen, PageLeavesOpen
     DEF Next, Environment, Transition, LeavesOpen, vars, eventVars
<1>3. CASE ServerPolls
  <2>1. Serve /\ stream # NoStream /\ stream \in Stream
    BY <1>3 DEF ServerPolls, Serve, ReadRun, ReadEvents, Recheck, Streaming, Sound, SoundPage
  <2>2. ~ ReadRun
    BY <2>1 DEF ReadRun, Stream
  <2>3. ~ ReadEvents
    BY <2>1 DEF ReadEvents, Stream
  <2>4. stream' = [stream EXCEPT !.pc = IF Ended THEN "closed" ELSE "run"]
    BY <2>1, <2>2, <2>3 DEF Serve, Recheck
  <2>5. Ended /\ stream'.cursor = stream.cursor
    BY <2>1, <2>4 DEF Stream
  <2>6. stream.cursor \in Nat /\ Len(log[stream.run]) \in Nat
    BY <2>1, LenProperties DEF Stream, Sound
  <2> QED
    BY <2>5, <2>6 DEF Ended
<1>4. CASE OnEvent
  <2>1. stream # NoStream /\ stream \in Stream /\ stream' = [stream EXCEPT !.received = @ + 1]
    BY <1>4 DEF OnEvent, InTransit, Sound, SoundPage
  <2>2. stream'.pc = stream.pc
    BY <2>1 DEF Stream
  <2> QED
    BY <2>2
<1> QED
  BY <1>2, <1>3, <1>4

\* The server ends a stream only when every event its run has by then has been
\* yielded, whatever is stored between the queries of a round.
THEOREM StreamsEndComplete == Spec => StreamClosesAfterAll
<1>1. Sound /\ [Next]_vars => [ClosesAfterAll]_eventVars
  BY ClosingStep
<1> QED
  BY <1>1, Soundness, PTL DEF Spec, StreamClosesAfterAll, ClosesAfterAll

-----------------------------------------------------------------------------
(* What the handlers of calls and buttons do to the page.                  *)

\* The timeline is kept.
Keeps(q) ==
  /\ q.lost = page.lost /\ q.recovering = page.recovering
  /\ page.strayed => q.strayed
  /\ q.lastSequence = page.lastSequence /\ q.events = page.events

\* The timeline is empty.
Fresh(q) ==
  /\ q.lost = page.lost /\ q.recovering = FALSE
  /\ q.lastSequence = 0 /\ q.events = <<>>

\* The changes that keep the timeline, of a page that takes an answer or does not.
LEMMA HandlersKeep ==
  ASSUME NEW base, Shown(base), Keeps(base), NEW busy \in BOOLEAN, NEW error \in BOOLEAN
  PROVE  /\ \A view : LET q == [base EXCEPT !.run = view]
                      IN  Keeps(q) /\ q.run = view /\ q.strayed = base.strayed
         /\ LET q == [base EXCEPT !.busy = busy]
            IN  q \in Page /\ Keeps(q) /\ Shown(q) /\ q.strayed = base.strayed
         /\ LET q == [base EXCEPT !.target = None, !.busy = TRUE, !.error = FALSE, !.reconnects = 0]
            IN  Keeps(q) /\ q.run = base.run /\ q.strayed = base.strayed
         /\ LET q == [base EXCEPT !.busy = busy, !.error = error]
            IN  /\ q \in Page /\ Keeps(q) /\ Shown(q) /\ q.error = error
                /\ q.run = base.run /\ q.strayed = base.strayed
<1>1. base \in Page /\ Shown(base)
  BY DEF Shown
<1>2. \A view : LET q == [base EXCEPT !.run = view]
                IN  /\ q.lost = base.lost /\ q.recovering = base.recovering /\ q.run = view
                    /\ q.strayed = base.strayed
                    /\ q.lastSequence = base.lastSequence /\ q.events = base.events
  BY <1>1, Zenon DEF Page
<1>3. LET q == [base EXCEPT !.target = None, !.busy = TRUE, !.error = FALSE, !.reconnects = 0]
      IN  /\ q.lost = base.lost /\ q.recovering = base.recovering /\ q.run = base.run
          /\ q.strayed = base.strayed
          /\ q.lastSequence = base.lastSequence /\ q.events = base.events
  BY <1>1, Zenon DEF Page
<1>4. LET q == [base EXCEPT !.busy = busy]
      IN  /\ q \in Page /\ q.lost = base.lost /\ q.recovering = base.recovering
          /\ q.strayed = base.strayed
          /\ q.run = base.run /\ q.lastSequence = base.lastSequence /\ q.events = base.events
          /\ q.active = base.active /\ q.reconciling = base.reconciling
          /\ q.handling = base.handling
  BY <1>1, Zenon DEF Page
<1>5. LET q == [base EXCEPT !.busy = busy, !.error = error]
      IN  /\ q \in Page /\ q.lost = base.lost /\ q.recovering = base.recovering
          /\ q.strayed = base.strayed
          /\ q.run = base.run /\ q.lastSequence = base.lastSequence /\ q.events = base.events
          /\ q.active = base.active /\ q.reconciling = base.reconciling
          /\ q.handling = base.handling /\ q.error = error
  BY <1>1, Zenon DEF Page
<1>6. LET q == [base EXCEPT !.busy = busy]
      IN  q \in Page /\ Keeps(q) /\ Shown(q) /\ q.strayed = base.strayed
  BY <1>1, <1>4 DEF Keeps, Shown
<1>7. LET q == [base EXCEPT !.busy = busy, !.error = error]
      IN  /\ q \in Page /\ Keeps(q) /\ Shown(q) /\ q.error = error
          /\ q.run = base.run /\ q.strayed = base.strayed
  BY <1>1, <1>5 DEF Keeps, Shown
<1> QED
  BY <1>2, <1>3, <1>6, <1>7 DEF Keeps

\* The page as it is keeps its timeline.
LEMMA PageKeeps ==
  ASSUME Sound
  PROVE  Shown(page) /\ Keeps(page)
BY PageIsShown DEF Keeps

\* analyze() empties the timeline of a page that shows no run.
LEMMA AnalyzeCases ==
  ASSUME Sound, NEW i \in Slots, NEW r \in Runs, Analyze(i, r)
  PROVE  /\ Shown(page') /\ Fresh(page') /\ page.run = None /\ page'.run = None
         /\ page'.strayed = page.strayed
         /\ UNCHANGED <<log, stream>> /\ calls' = [calls EXCEPT ![i] = Ask("create", r)]
<1> DEFINE q == FreshTimeline(page)
<1>1. /\ q \in Page /\ Shown(q) /\ q.lastSequence = 0 /\ q.events = <<>>
      /\ q.run = page.run /\ q.lost = page.lost /\ q.strayed = page.strayed
  BY FreshTimelineIsShown DEF Shown
<1>2. page' = [q EXCEPT !.recovering = FALSE, !.target = None, !.busy = TRUE, !.error = FALSE]
  BY DEF Analyze
<1> HIDE DEF q
<1>3. page' \in Page
  BY <1>1, <1>2, Zenon DEF Page
<1>4. /\ page'.active = q.active /\ page'.handling = q.handling /\ page'.lost = q.lost
      /\ page'.reconciling = q.reconciling /\ page'.run = q.run /\ page'.recovering = FALSE
      /\ page'.strayed = q.strayed
      /\ page'.lastSequence = q.lastSequence /\ page'.events = q.events
  BY <1>1, <1>2, Zenon DEF Page
<1>5. page.run = None /\ UNCHANGED <<log, stream>> /\ calls' = [calls EXCEPT ![i] = Ask("create", r)]
  BY DEF Analyze, eventVars
<1> QED
  BY <1>1, <1>3, <1>4, <1>5 DEF Shown, Fresh

\* The answers of analyze() and continueWithSnapshot() are shown and followed.
LEMMA StartedCases ==
  ASSUME Sound, NEW i \in Slots, CreateAnswered(i) \/ ContinueAnswered(i)
  PROVE  /\ calls[i].run \in Runs /\ Exists(calls[i].run) /\ Answered(i) /\ UNCHANGED log
         /\ \E p : /\ Shown(p) /\ Keeps(p) /\ p.run # None /\ p.run.run = calls[i].run
                   /\ (Strays(i) => p.strayed)
                   /\ SetActive(p, calls[i].run)
<1>1. PICK s \in RunState :
        SetActive([Taking(i) EXCEPT !.run = View(calls[i].run, s)], calls[i].run)
  BY DEF CreateAnswered, ContinueAnswered, RunState
<1>2. calls[i].run \in Runs /\ Exists(calls[i].run) /\ Answered(i) /\ UNCHANGED log
  BY WaitingCall DEF CreateAnswered, ContinueAnswered, CallKind
<1> DEFINE view == View(calls[i].run, s)
<1>3. view \in RunView /\ view.run = calls[i].run
  BY <1>2, ViewIsView
<1>4. view # None
  BY <1>3, NoneAssumption
<1>5. SetActive([Taking(i) EXCEPT !.run = view], calls[i].run)
  BY <1>1
<1> HIDE DEF view
<1> DEFINE p == [Taking(i) EXCEPT !.run = view]
<1> DEFINE b == Taking(i)
<1>6. Shown(b) /\ Keeps(b) /\ (Strays(i) => b.strayed)
  BY TakingIsShown DEF Keeps
<1> HIDE DEF b
<1>7. LET q == [b EXCEPT !.run = view]
      IN  Shown(q) /\ Keeps(q) /\ q.run = view /\ (Strays(i) => q.strayed)
  <2>1. Shown([b EXCEPT !.run = view])
    BY <1>2, <1>3, <1>6, ViewIsShown
  <2>2. \A v : LET q == [b EXCEPT !.run = v]
               IN  Keeps(q) /\ q.run = v /\ q.strayed = b.strayed
    BY <1>6, HandlersKeep
  <2> QED
    BY <1>6, <2>1, <2>2
<1>8. Shown(p) /\ Keeps(p) /\ p.run = view /\ (Strays(i) => p.strayed)
  BY <1>7 DEF b
<1> HIDE DEF p
<1> QED
  BY <1>2, <1>3, <1>4, <1>5, <1>8 DEF p

\* approve() goes over to the run it shows.
LEMMA ApproveCases ==
  ASSUME Sound, NEW i \in Slots, Approve(i)
  PROVE  /\ page.run # None /\ page.run.run \in Runs /\ Exists(page.run.run)
         /\ calls' = [calls EXCEPT ![i] = Ask("approve", page.run.run)] /\ UNCHANGED log
         /\ \E p : /\ Shown(p) /\ Keeps(p) /\ p.run = page.run
                   /\ SetActive(p, page.run.run)
<1> DEFINE p == [page EXCEPT !.target = None, !.busy = TRUE, !.error = FALSE, !.reconnects = 0]
<1>1. /\ page.run # None /\ SetActive(p, page.run.run) /\ UNCHANGED log
      /\ calls' = [calls EXCEPT ![i] = Ask("approve", page.run.run)]
  BY DEF Approve, Shows
<1>2. page.run.run \in Runs /\ Exists(page.run.run)
  BY <1>1, PageIsShown
<1>3. Shown(p) /\ Keeps(p) /\ p.run = page.run
  BY StartedIsShown, PageKeeps, HandlersKeep
<1> HIDE DEF p
<1> QED
  BY <1>1, <1>2, <1>3

\* The answer about the saved run: it is shown and followed, from the start.
LEMMA RecoveredCases ==
  ASSUME Sound, NEW i \in Slots, Recovered(i)
  PROVE  /\ calls[i].run \in Runs /\ Exists(calls[i].run) /\ Answered(i) /\ UNCHANGED log
         /\ page.recovering
         /\ \E p : /\ Shown(p) /\ Fresh(p) /\ p.run # None /\ p.run.run = calls[i].run
                   /\ p.strayed = page.strayed
                   /\ SetActive(p, calls[i].run)
<1>1. /\ calls[i].run \in Runs /\ Exists(calls[i].run) /\ calls[i].at \in Nat /\ calls[i].at >= 1
      /\ log \in [Runs -> Seq(RunState)] /\ page.recovering
  BY WaitingCall DEF CallKind, Sound, Recovered
<1> DEFINE q == FreshTimeline(page)
           p(view) == [q EXCEPT !.recovering = FALSE, !.run = view, !.target = view.state,
                                !.busy = view.state \notin RecoveredActionStates]
<1>2. /\ q \in Page /\ Shown(q) /\ q.lastSequence = 0 /\ q.events = <<>>
      /\ q.run = page.run /\ q.lost = page.lost /\ q.strayed = page.strayed
  BY FreshTimelineIsShown DEF Shown
<1>3. PICK view \in Answers(calls[i].run, calls[i].at) : SetActive(p(view), calls[i].run)
  BY DEF Recovered
<1>4. view \in RunView /\ view.run = calls[i].run /\ view # None
  BY <1>1, <1>3, AnswerIsView, NoneAssumption
<1> HIDE DEF q
<1>5. p(view) \in Page
  <2>1. view.state \in RunState
    BY <1>4 DEF RunView
  <2> QED
    BY <1>2, <1>4, <2>1, Zenon DEF Page
<1>6. /\ p(view).run = view /\ p(view).active = q.active /\ p(view).recovering = FALSE
      /\ p(view).reconciling = q.reconciling /\ p(view).handling = q.handling
      /\ p(view).lost = q.lost /\ p(view).lastSequence = q.lastSequence
      /\ p(view).events = q.events /\ p(view).strayed = q.strayed
  BY <1>2, Zenon DEF Page
<1> HIDE DEF p
<1>7. Shown(p(view)) /\ Fresh(p(view)) /\ p(view).strayed = page.strayed
  BY <1>1, <1>2, <1>4, <1>5, <1>6 DEF Shown, Fresh
<1>8. Answered(i) /\ UNCHANGED log
  BY DEF Recovered
<1> QED
  BY <1>1, <1>3, <1>4, <1>6, <1>7, <1>8

\* reset() empties the timeline, shows no run and follows none.
LEMMA ResetCases ==
  ASSUME Sound, Reset
  PROVE  /\ UNCHANGED <<log, calls>>
         /\ \E p : Shown(p) /\ Fresh(p) /\ p.run = None /\ SetActive(p, None)
<1> DEFINE q == FreshTimeline(page)
           p == [q EXCEPT !.recovering = FALSE, !.target = None, !.run = None,
                          !.error = FALSE, !.busy = FALSE, !.strayed = FALSE]
<1>1. /\ q \in Page /\ Shown(q) /\ q.lastSequence = 0 /\ q.events = <<>> /\ q.lost = page.lost
  BY FreshTimelineIsShown DEF Shown
<1>2. SetActive(p, None) /\ UNCHANGED <<log, calls>>
  BY DEF Reset
<1> HIDE DEF q
<1>3. p \in Page
  BY <1>1, Zenon DEF Page
<1>4. /\ p.run = None /\ p.active = q.active /\ p.reconciling = q.reconciling
      /\ p.handling = q.handling /\ p.recovering = FALSE /\ p.lost = q.lost
      /\ p.lastSequence = q.lastSequence /\ p.events = q.events
  BY <1>1, Zenon DEF Page
<1> HIDE DEF p
<1>5. Shown(p) /\ Fresh(p)
  BY <1>1, <1>3, <1>4 DEF Shown, Fresh
<1> QED
  BY <1>2, <1>4, <1>5

\* A view that a GET of call i was answered with is shown, with a message unless
\* it is the one after a receipt or the run is completed; in an end state it
\* ends the following.
ShowsAnswer(i) ==
  \E p, view, n :
    /\ Shown(p) /\ Keeps(p) /\ p.run = view /\ view \in RunView
    /\ view.run = calls[i].run /\ n \in calls[i].at..Len(log[calls[i].run])
    /\ view.state = log[calls[i].run][n]
    /\ calls[i].kind = "approved" \/ view.state = "completed" \/ p.error
    /\ Strays(i) => p.strayed
    /\ SetActive(p, IF view.state \in StreamEndStates THEN None ELSE page.active)

\* The GETs after an approval: a view is shown, and it ends the following if it
\* is in an end state; or the one after an error is asked for; or that fails.
LEMMA FinalCases ==
  ASSUME Sound, NEW i \in Slots, ApprovedAnswered(i) \/ RefreshAnswered(i)
  PROVE  /\ calls[i].kind \in {"approved", "refresh"} /\ UNCHANGED log
         /\ calls[i].run \in Runs /\ Exists(calls[i].run) /\ calls[i].at \in Nat
         /\ \/ Answered(i) /\ ShowsAnswer(i)
            \/ /\ UNCHANGED <<page, stream>>
               /\ calls' = [calls EXCEPT ![i] = Ask("refresh", calls[i].run)]
            \/ /\ Answered(i) /\ Shown(page') /\ Keeps(page') /\ page'.error
               /\ page'.run = page.run /\ page'.strayed = page.strayed
               /\ UNCHANGED stream
<1>1. calls[i].kind \in {"approved", "refresh"} /\ UNCHANGED log
  BY DEF ApprovedAnswered, RefreshAnswered
<1>2. /\ calls[i].run \in Runs /\ Exists(calls[i].run) /\ calls[i].at \in Nat /\ calls[i].at >= 1
      /\ log \in [Runs -> Seq(RunState)]
  BY <1>1, WaitingCall DEF CallKind, Sound
<1>3. ASSUME NEW view \in Answers(calls[i].run, calls[i].at), NEW p \in Page,
             Keeps(p), Shown(p), ShowFinal(p, view), Answered(i),
             calls[i].kind = "approved" \/ view.state = "completed" \/ p.error,
             Strays(i) => p.strayed
      PROVE  ShowsAnswer(i)
  <2>1. PICK n \in calls[i].at..Len(log[calls[i].run]) : view.state = log[calls[i].run][n]
    BY <1>2, AnswerIsView
  <2>2. view \in RunView /\ view.run = calls[i].run
    BY <1>2, AnswerIsView
  <2> DEFINE q == [p EXCEPT !.run = view]
  <2>3. q \in Page
    BY <2>2, Zenon DEF Page
  <2>4. /\ q.run = view /\ q.active = p.active /\ q.reconciling = p.reconciling
        /\ q.handling = p.handling /\ q.error = p.error /\ q.lost = p.lost
        /\ q.recovering = p.recovering /\ q.lastSequence = p.lastSequence /\ q.events = p.events
        /\ q.strayed = p.strayed
    BY Zenon DEF Page
  <2>5. SetActive(q, IF view.state \in StreamEndStates THEN None ELSE page.active)
    BY <1>3 DEF ShowFinal
  <2> HIDE DEF q
  <2>6. Shown(q) /\ Keeps(q)
    BY <1>2, <1>3, <2>2, <2>3, <2>4 DEF Shown, Keeps
  <2>7. calls[i].kind = "approved" \/ view.state = "completed" \/ q.error
    BY <1>3, <2>4
  <2>8. Strays(i) => q.strayed
    BY <1>3, <2>4
  <2> QED
    BY <2>1, <2>2, <2>4, <2>5, <2>6, <2>7, <2>8 DEF ShowsAnswer
<1> DEFINE b == Taking(i)
<1>4. Shown(b) /\ Keeps(b) /\ (Strays(i) => b.strayed)
  BY TakingIsShown DEF Keeps
<1>5. CASE ApprovedAnswered(i)
  <2>1. CASE /\ \E view \in Answers(calls[i].run, calls[i].at) :
                  ShowFinal([Taking(i) EXCEPT !.busy = FALSE], view)
             /\ Answered(i)
    <3> DEFINE p == [b EXCEPT !.busy = FALSE]
    <3>1. PICK view \in Answers(calls[i].run, calls[i].at) : ShowFinal(p, view)
      BY <2>1
    <3> HIDE DEF b
    <3>2. p \in Page /\ Keeps(p) /\ Shown(p) /\ (Strays(i) => p.strayed)
      BY <1>4, HandlersKeep
    <3>3. calls[i].kind = "approved"
      BY <1>5 DEF ApprovedAnswered
    <3> HIDE DEF p
    <3> QED
      BY <1>1, <1>2, <1>3, <2>1, <3>1, <3>2, <3>3
  <2>2. CASE /\ UNCHANGED <<page, stream>>
             /\ calls' = [calls EXCEPT ![i] = Ask("refresh", calls[i].run)]
    BY <1>1, <1>2, <2>2
  <2> QED
    BY <1>5, <2>1, <2>2 DEF ApprovedAnswered
<1>6. CASE RefreshAnswered(i)
  <2>1. Answered(i)
    BY <1>6 DEF RefreshAnswered
  <2>2. CASE \E view \in Answers(calls[i].run, calls[i].at) :
               ShowFinal([Taking(i) EXCEPT !.busy = FALSE, !.error = view.state # "completed"], view)
    <3>1. PICK view \in Answers(calls[i].run, calls[i].at) :
            ShowFinal([Taking(i) EXCEPT !.busy = FALSE, !.error = view.state # "completed"], view)
      BY <2>2
    <3>2. PICK e \in BOOLEAN : e = (view.state # "completed")
      OBVIOUS
    <3> DEFINE p == [b EXCEPT !.busy = FALSE, !.error = e]
    <3>4. ShowFinal(p, view)
      BY <3>1, <3>2
    <3> HIDE DEF b
    <3>6. b \in Page
      BY <1>4 DEF Shown
    <3>7. p \in Page /\ Keeps(p) /\ Shown(p)
      BY <1>4, HandlersKeep
    <3>8. p.error = e /\ p.strayed = b.strayed
      BY <3>6 DEF Page
    <3>3. p \in Page /\ Keeps(p) /\ Shown(p) /\ p.error = e /\ (Strays(i) => p.strayed)
      BY <1>4, <3>7, <3>8
    <3> HIDE DEF p
    <3>5. view.state = "completed" \/ p.error
      BY <3>2, <3>3
    <3> QED
      BY <1>1, <1>2, <1>3, <2>1, <3>1, <3>3, <3>4, <3>5
  <2>3. CASE page' = [page EXCEPT !.busy = FALSE, !.error = TRUE] /\ UNCHANGED stream
    <3> DEFINE p == [page EXCEPT !.busy = FALSE, !.error = TRUE]
    <3>1. p \in Page /\ Keeps(p) /\ Shown(p) /\ p.error = TRUE /\ p.run = page.run
          /\ p.strayed = page.strayed
      BY PageKeeps, HandlersKeep
    <3>2. page' = p
      BY <2>3
    <3> HIDE DEF p
    <3> QED
      BY <1>1, <1>2, <2>1, <2>3, <3>1, <3>2
  <2> QED
    BY <1>6, <2>2, <2>3 DEF RefreshAnswered
<1> QED
  BY <1>5, <1>6

\* The other handlers leave what is shown, the timeline and the stream.
LEMMA QuietCases ==
  ASSUME Sound, NEW i \in Slots, CallFails(i) \/ Continue(i) \/ RecoveryFails(i)
  PROVE  /\ Shown(page') /\ page'.run = page.run /\ page'.lost = page.lost
         /\ page'.lastSequence = page.lastSequence /\ page'.events = page.events
         /\ page'.recovering => page.recovering
         /\ page'.strayed = page.strayed
         /\ UNCHANGED <<log, stream>>
         /\ \/ Answered(i) /\ page'.error
            \/ /\ page.run # None /\ page.run.run \in Runs
               /\ calls' = [calls EXCEPT ![i] = Ask("continue", page.run.run)]
<1>1. page \in Page /\ Shown(page)
  BY PageIsShown
<1>2. CASE CallFails(i)
  <2>1. page' = [page EXCEPT !.error = TRUE, !.busy = FALSE]
    BY <1>2 DEF CallFails
  <2>2. page' \in Page
    BY <1>1, <2>1, Zenon DEF Page
  <2>3. /\ page'.run = page.run /\ page'.lost = page.lost /\ page'.recovering = page.recovering
        /\ page'.lastSequence = page.lastSequence /\ page'.events = page.events
        /\ page'.active = page.active /\ page'.reconciling = page.reconciling
        /\ page'.handling = page.handling /\ page'.error = TRUE
        /\ page'.strayed = page.strayed
    BY <1>1, <2>1, Zenon DEF Page
  <2> QED
    BY <1>1, <1>2, <2>2, <2>3 DEF CallFails, Shown, eventVars
<1>3. CASE RecoveryFails(i)
  <2>1. page' = [page EXCEPT !.recovering = FALSE, !.error = TRUE, !.busy = FALSE]
    BY <1>3 DEF RecoveryFails
  <2>2. page' \in Page
    BY <1>1, <2>1, Zenon DEF Page
  <2>3. /\ page'.run = page.run /\ page'.lost = page.lost /\ page'.recovering = FALSE
        /\ page'.lastSequence = page.lastSequence /\ page'.events = page.events
        /\ page'.active = page.active /\ page'.reconciling = page.reconciling
        /\ page'.handling = page.handling /\ page'.error = TRUE
        /\ page'.strayed = page.strayed
    BY <1>1, <2>1, Zenon DEF Page
  <2> QED
    BY <1>1, <1>3, <2>2, <2>3 DEF RecoveryFails, Shown, eventVars
<1>4. CASE Continue(i)
  <2>1. /\ Shown(page') /\ Keeps(page') /\ page'.run = page.run
        /\ page'.strayed = page.strayed
    BY <1>4, StartedIsShown, PageKeeps, HandlersKeep DEF Continue
  <2>2. page.run # None /\ UNCHANGED <<log, stream>>
        /\ calls' = [calls EXCEPT ![i] = Ask("continue", page.run.run)]
    BY <1>4 DEF Continue, Shows, eventVars
  <2> QED
    BY <2>1, <2>2, PageIsShown DEF Keeps
<1> QED
  BY <1>2, <1>3, <1>4

-----------------------------------------------------------------------------
(* The page never falls silent.                                            *)

\* A run that is followed is followed by a stream, or is being asked for after
\* one that broke, or the user has been told.
Watched == page.active # None => stream # NoStream \/ page.handling # None \/ page.lost

\* A run under way that is shown but not followed is explained.
Explained ==
  page.active = None /\ Shows(RunState \ StreamEndStates) =>
    Unanswered \/ page.error \/ OffersResume \/ page.lost

\* The GET that follows a receipt can only be answered with a completed run.
Receipt(c, l) ==
  c.kind = "approved" => Last(l[c.run]) = "completed" /\ c.at = Len(l[c.run])

ReceiptsStand == \A i \in Slots : Receipt(calls[i], log)

Awake == Watched /\ Explained /\ ReceiptsStand

\* Where the effect on activeRunId leaves a page.
LEMMA Goes ==
  ASSUME Sound, NEW p \in Page, p.active = page.active, NEW r \in Runs \cup {None},
         SetActive(p, r)
  PROVE  /\ page'.active = r /\ page'.run = p.run /\ page'.error = p.error
         /\ page'.lost = p.lost /\ page'.lastSequence = p.lastSequence
         /\ page'.events = p.events /\ page'.recovering = p.recovering
         /\ page'.strayed = p.strayed
         /\ \/ r = page.active /\ page' = p /\ UNCHANGED stream
            \/ r = None /\ stream' = NoStream
            \/ r # None /\ r # page.active /\ stream' = Opened(r, p.lastSequence)
<1>1. CASE r = page.active
  BY <1>1 DEF SetActive
<1>2. CASE r # page.active
  <2> DEFINE q == Disposed(p, r)
  <2>1. page' = q /\ stream' = IF r = None THEN NoStream ELSE Opened(r, p.lastSequence)
    BY <1>2 DEF SetActive, Disposed
  <2>2. /\ q.active = r /\ q.run = p.run /\ q.error = p.error /\ q.lost = p.lost
        /\ q.lastSequence = p.lastSequence /\ q.events = p.events
        /\ q.recovering = p.recovering /\ q.strayed = p.strayed
    BY Zenon DEF Disposed, Page
  <2> HIDE DEF q
  <2> QED
    BY <1>2, <2>1, <2>2
<1> QED
  BY <1>1, <1>2

\* Going over to a run, or to none, does not leave a run unwatched.
LEMMA GoingIsWatched ==
  ASSUME Sound, Watched, NEW p, Shown(p), p.lost = page.lost, NEW r \in Runs \cup {None},
         SetActive(p, r)
  PROVE  Watched'
<1>1. p \in Page /\ p.active = page.active /\ p.handling = page.handling
  BY DEF Shown
<1>2. page.lastSequence \in Nat /\ p.lastSequence \in Nat
  BY <1>1, PageIsShown DEF Page
<1>3. r # None => Opened(r, p.lastSequence) # NoStream
  BY <1>2, OpenedIsStream
<1> QED
  BY <1>1, <1>3, Goes DEF Watched

\* A page that stays where it is stays watched.
LEMMA StayingIsWatched ==
  ASSUME Watched, page'.active = page.active, page'.handling = page.handling,
         page'.lost = page.lost, UNCHANGED stream
  PROVE  Watched'
BY DEF Watched

\* Watched is kept by the calls of the handlers.
LEMMA HandlersAreWatched ==
  ASSUME Sound, Watched, NEW i \in Slots,
         \/ \E r \in Runs : Analyze(i, r)
         \/ ServeCreate(i) \/ Approve(i) \/ Continue(i) \/ HandlerAnswered(i)
  PROVE  Watched'
<1>1. ASSUME Shown(page'), page'.lost = page.lost, UNCHANGED stream
      PROVE  Watched'
  BY <1>1, StayingIsWatched DEF Shown
<1>2. CASE \E r \in Runs : Analyze(i, r)
  BY <1>1, <1>2, AnalyzeCases DEF Fresh
<1>3. CASE ServeCreate(i)
  BY <1>3, StayingIsWatched DEF ServeCreate, pageVars
<1>4. CASE Continue(i) \/ CallFails(i) \/ RecoveryFails(i)
  BY <1>1, <1>4, QuietCases
<1>5. CASE Approve(i)
  BY <1>5, ApproveCases, GoingIsWatched DEF Keeps
<1>6. CASE CreateAnswered(i) \/ ContinueAnswered(i)
  BY <1>6, StartedCases, GoingIsWatched DEF Keeps
<1>7. CASE ApproveAnswered(i)
  BY <1>7, StayingIsWatched DEF ApproveAnswered, eventVars
<1>8. CASE ApprovedAnswered(i) \/ RefreshAnswered(i)
  <2>1. CASE UNCHANGED <<page, stream>>
    BY <2>1, StayingIsWatched
  <2>2. CASE Shown(page') /\ Keeps(page') /\ UNCHANGED stream
    BY <1>1, <2>2 DEF Keeps
  <2>3. ASSUME NEW p, NEW view, Shown(p), Keeps(p),
               SetActive(p, IF view.state \in StreamEndStates THEN None ELSE page.active)
        PROVE  Watched'
    <3>1. PICK r \in Runs \cup {None} : SetActive(p, r)
      BY <2>3, PageIsShown
    <3> QED
      BY <2>3, <3>1, GoingIsWatched DEF Keeps
  <2>4. CASE ShowsAnswer(i)
    BY <2>3, <2>4 DEF ShowsAnswer
  <2> QED
    BY <1>8, <2>1, <2>2, <2>4, FinalCases
<1>9. CASE Recovered(i)
  BY <1>9, RecoveredCases, GoingIsWatched DEF Fresh
<1> QED
  BY <1>2, <1>3, <1>4, <1>5, <1>6, <1>7, <1>8, <1>9 DEF HandlerAnswered

\* A page that settles follows no run.
LEMMA SettlesCases ==
  ASSUME Sound, Settles
  PROVE  /\ page'.active = None /\ page'.lost = page.lost /\ page'.recovering = page.recovering
         /\ page'.strayed = page.strayed
         /\ page'.lastSequence = page.lastSequence /\ page'.events = page.events
         /\ page'.run \in RunView /\ page'.run.run = page.active
         /\ page'.run.state \in StreamEndStates
         /\ page.active # None => stream' = NoStream
<1>1. PICK view \in RunView : view.run = page.active /\ view.state \in StreamEndStates /\ Settle(view)
  BY DEF Settles
<1> DEFINE p == [page EXCEPT !.run = view, !.target = None, !.error = FALSE, !.busy = FALSE]
<1>2. page \in Page
  BY PageIsShown
<1>3. p \in Page
  BY <1>2, Zenon DEF Page
<1>4. /\ p.active = page.active /\ p.lost = page.lost /\ p.recovering = page.recovering
      /\ p.strayed = page.strayed
      /\ p.lastSequence = page.lastSequence /\ p.events = page.events /\ p.run = view
  BY <1>2, Zenon DEF Page
<1>5. SetActive(p, None)
  BY <1>1 DEF Settle
<1> HIDE DEF p
<1> QED
  BY <1>1, <1>3, <1>4, <1>5, Goes

\* Every step keeps Watched.
LEMMA WatchedStep == Sound /\ Watched /\ [Next]_vars => Watched'
<1> SUFFICES ASSUME Sound, Watched, [Next]_vars PROVE Watched'
  OBVIOUS
<1>1. CASE Environment \/ UNCHANGED vars
  BY <1>1, StayingIsWatched DEF Environment, Transition, vars, eventVars, pageVars
<1>2. CASE ServerPolls
  <2>1. stream # NoStream /\ UNCHANGED page
    BY <1>2 DEF ServerPolls, Serve, ReadRun, ReadEvents, Recheck, Streaming, pageVars
  <2>2. stream \in Stream /\ stream.run \in Runs /\ Exists(stream.run)
    BY <2>1, NoneAssumption DEF Sound, SoundPage, Stream, Known, Exists
  <2>3. stream' # NoStream
    BY <1>2, <2>2, ServeKeepsStream DEF Sound, ServerPolls
  <2> QED
    BY <2>1, <2>3 DEF Watched
<1>3. ASSUME NEW i \in Slots,
             \/ \E r \in Runs : Analyze(i, r)
             \/ ServeCreate(i) \/ Approve(i) \/ Continue(i) \/ HandlerAnswered(i)
      PROVE  Watched'
  BY <1>3, HandlersAreWatched
<1>4. CASE Reset
  BY <1>4, ResetCases, GoingIsWatched DEF Fresh
<1>5. CASE Reload
  BY <1>5 DEF Reload, NewPage, Watched
<1>6. CASE OnEvent
  BY <1>6, StreamAdvances DEF OnEvent, Watched
<1>7. CASE ReconcileAnswered
  <2>1. CASE Settles
    BY <2>1, SettlesCases DEF Watched
  <2>2. CASE /\ Follows(page') /\ UNCHANGED stream
             /\ page'.handling = page.handling /\ page'.lost = page.lost
    BY <2>2, StayingIsWatched DEF Follows
  <2> QED
    BY <1>7, <2>1, <2>2, ReconcileCases
<1>8. CASE OnStreamError
  BY <1>8, StreamErrorAsks, NoneAssumption DEF Watched
<1>9. CASE StreamErrorAnswered
  <2>1. page.active \in Runs /\ page.lastSequence \in Nat
    BY <1>9, StreamErrorCases, PageIsShown DEF Page
  <2>2. Opened(page.active, page.lastSequence) # NoStream
    BY <2>1, OpenedIsStream
  <2> QED
    BY <1>9, <2>2, StreamErrorCases, SettlesCases DEF Watched
<1> QED
  BY <1>1, <1>2, <1>3, <1>4, <1>5, <1>6, <1>7, <1>8, <1>9 DEF Next

\* One slot changes.
LEMMA OneReceipt ==
  ASSUME Sound, ReceiptsStand, NEW i \in Slots, NEW c, Receipt(c, log),
         calls' = [calls EXCEPT ![i] = c], UNCHANGED log
  PROVE  ReceiptsStand'
<1>1. \A j \in Slots : calls'[j] = IF j = i THEN c ELSE calls[j]
  BY DEF Sound
<1>2. \A j \in Slots : Receipt(calls'[j], log)
  BY <1>1 DEF ReceiptsStand
<1> QED
  BY <1>2 DEF ReceiptsStand, Receipt

\* No call, and a call of another kind, says nothing of a receipt.
LEMMA NoReceipt ==
  /\ Receipt(NoCall, log)
  /\ \A kind, r : kind # "approved" => Receipt(Ask(kind, r), log)
<1>1. NoCall.kind # "approved"
  BY NoneAssumption DEF NoCall, CallKind
<1> QED
  BY <1>1 DEF Receipt, Ask

\* A completed run never moves, and a run is stored once.
LEMMA LogKeepsReceipts ==
  ASSUME Sound, ReceiptsStand, UNCHANGED calls, NEW r \in Runs,
         Transition(r) \/ (~ Exists(r) /\ Create(r))
  PROVE  ReceiptsStand'
<1>1. log \in [Runs -> Seq(RunState)]
  BY DEF Sound
<1>2. ASSUME NEW i \in Slots, calls[i].kind = "approved"
      PROVE  log'[calls[i].run] = log[calls[i].run]
  <2>1. calls[i].run \in Runs /\ Exists(calls[i].run)
    BY <1>2, WaitingCall DEF CallKind
  <2>2. State(calls[i].run) = "completed"
    BY <1>2 DEF ReceiptsStand, Receipt, State
  <2>3. CASE Transition(r)
    <3>1. PICK to \in RunState : /\ Exists(r) /\ to \in AllowedTransitions[State(r)]
                                 /\ log' = [log EXCEPT ![r] = Append(log[r], to)]
      BY <1>1, <2>3, TransitionAppends
    <3>2. State(r) # "completed"
      BY <3>1 DEF AllowedTransitions, RunState
    <3> QED
      BY <1>1, <2>1, <2>2, <3>1, <3>2
  <2>4. CASE ~ Exists(r) /\ Create(r)
    BY <1>1, <2>1, <2>4 DEF Create
  <2> QED
    BY <2>3, <2>4
<1> QED
  BY <1>2 DEF ReceiptsStand, Receipt

\* Every step keeps ReceiptsStand.
LEMMA ReceiptsStep == Sound /\ ReceiptsStand /\ [Next]_vars => ReceiptsStand'
<1> SUFFICES ASSUME Sound, ReceiptsStand, [Next]_vars PROVE ReceiptsStand'
  OBVIOUS
<1>1. ASSUME UNCHANGED <<log, calls>>
      PROVE  ReceiptsStand'
  BY <1>1 DEF ReceiptsStand, Receipt
<1>2. ASSUME NEW i \in Slots, Answered(i), UNCHANGED log
      PROVE  ReceiptsStand'
  BY <1>2, NoReceipt, OneReceipt DEF Answered
<1>3. ASSUME NEW i \in Slots, NEW kind, kind # "approved", NEW r, UNCHANGED log,
             calls' = [calls EXCEPT ![i] = Ask(kind, r)]
      PROVE  ReceiptsStand'
  BY <1>3, NoReceipt, OneReceipt
<1>4. CASE Environment
  BY <1>4, LogKeepsReceipts DEF Environment, pageVars
<1>5. CASE ServerPolls
  BY <1>1, <1>5 DEF ServerPolls, Serve, ReadRun, ReadEvents, Recheck, pageVars
<1>6. ASSUME NEW i \in Slots,
             (\E r \in Runs : Analyze(i, r)) \/ Approve(i) \/ Continue(i)
      PROVE  ReceiptsStand'
  BY <1>3, <1>6 DEF Analyze, Approve, Continue, eventVars
<1>7. ASSUME NEW i \in Slots, ServeCreate(i)
      PROVE  ReceiptsStand'
  BY <1>7, WaitingCall, LogKeepsReceipts DEF ServeCreate, CallKind, pageVars
<1>8. ASSUME NEW i \in Slots, HandlerAnswered(i)
      PROVE  ReceiptsStand'
  <2>1. CASE \/ CreateAnswered(i) \/ CallFails(i) \/ RecoveryFails(i)
             \/ ContinueAnswered(i) \/ Recovered(i) \/ RefreshAnswered(i)
    BY <1>2, <2>1 DEF CreateAnswered, CallFails, RecoveryFails, ContinueAnswered, Recovered,
       RefreshAnswered, eventVars
  <2>2. CASE ApproveAnswered(i)
    <3>1. CASE calls' = [calls EXCEPT ![i] = Ask("refresh", calls[i].run)]
      BY <1>3, <2>2, <3>1 DEF ApproveAnswered, eventVars
    <3>2. CASE /\ State(calls[i].run) = "completed"
               /\ calls' = [calls EXCEPT ![i] = Ask("approved", calls[i].run)]
      <4>1. Receipt(Ask("approved", calls[i].run), log)
        BY <3>2 DEF Receipt, Ask, State
      <4> QED
        BY <2>2, <3>2, <4>1, OneReceipt DEF ApproveAnswered, eventVars
    <3> QED
      BY <2>2, <3>1, <3>2 DEF ApproveAnswered
  <2>3. CASE ApprovedAnswered(i)
    BY <1>2, <1>3, <2>3 DEF ApprovedAnswered
  <2> QED
    BY <1>8, <2>1, <2>2, <2>3 DEF HandlerAnswered
<1>9. CASE Reload
  <2>1. \A i \in Slots : Receipt(calls'[i], log)
    BY <1>9, NoReceipt DEF Reload, Opening
  <2> QED
    BY <1>9, <2>1 DEF Reload, ReceiptsStand, Receipt
<1>10. CASE Reset \/ OnEvent \/ ReconcileAnswered \/ OnStreamError \/ StreamErrorAnswered
  BY <1>1, <1>10 DEF Reset, OnEvent, ReconcileAnswered, OnStreamError, StreamErrorAnswered
<1>11. CASE UNCHANGED vars
  BY <1>1, <1>11 DEF vars, eventVars, pageVars
<1> QED
  BY <1>4, <1>5, <1>6, <1>7, <1>8, <1>9, <1>10, <1>11 DEF Next

\* A call that is asked is unanswered.
LEMMA AskingExplains ==
  ASSUME Sound, NEW i \in Slots, NEW kind \in CallKind, NEW r,
         calls' = [calls EXCEPT ![i] = Ask(kind, r)]
  PROVE  Explained'
<1>1. Ask(kind, r) # NoCall
  BY NoneAssumption DEF Ask, NoCall
<1>2. calls'[i] = Ask(kind, r)
  BY DEF Sound
<1> QED
  BY <1>1, <1>2 DEF Explained, Unanswered

\* So are a message, a run in an end state, and a run that is followed.
LEMMA Explanations ==
  ASSUME \/ page'.error
         \/ page'.run = None
         \/ page'.run.state \in StreamEndStates
         \/ page'.active # None
  PROVE  Explained'
BY DEF Explained, Shows

\* Every step keeps Explained.
LEMMA ExplainedStep == Sound /\ Explained /\ ReceiptsStand /\ [Next]_vars => Explained'
<1> SUFFICES ASSUME Sound, Explained, ReceiptsStand, [Next]_vars PROVE Explained'
  OBVIOUS
<1>1. ASSUME UNCHANGED <<page, calls>>
      PROVE  Explained'
  BY <1>1 DEF Explained, Shows, Unanswered, OffersResume
<1>2. CASE Environment \/ ServerPolls \/ UNCHANGED vars
  BY <1>1, <1>2 DEF Environment, ServerPolls, vars, pageVars
<1>3. ASSUME NEW i \in Slots,
             (\E r \in Runs : Analyze(i, r)) \/ Approve(i) \/ Continue(i) \/ ApproveAnswered(i)
      PROVE  Explained'
  BY <1>3, AskingExplains DEF Analyze, Approve, Continue, ApproveAnswered, CallKind
<1>4. ASSUME NEW i \in Slots, ServeCreate(i)
      PROVE  Explained'
  BY <1>1, <1>4 DEF ServeCreate, pageVars
<1>5. ASSUME NEW i \in Slots, CreateAnswered(i) \/ ContinueAnswered(i) \/ Recovered(i)
      PROVE  Explained'
  <2>1. PICK p : Shown(p) /\ SetActive(p, calls[i].run)
    BY <1>5, StartedCases, RecoveredCases
  <2>2. calls[i].run \in Runs
    BY <1>5, StartedCases, RecoveredCases
  <2>3. page'.active = calls[i].run
    BY <2>1, <2>2, Goes DEF Shown
  <2> QED
    BY <2>2, <2>3, NoneAssumption, Explanations
<1>6. ASSUME NEW i \in Slots, CallFails(i) \/ RecoveryFails(i)
      PROVE  Explained'
  <2>1. page'.error
    BY <1>6 DEF CallFails, RecoveryFails, Sound, SoundPage, Page
  <2> QED
    BY <2>1, Explanations
<1>7. ASSUME NEW i \in Slots, ApprovedAnswered(i) \/ RefreshAnswered(i)
      PROVE  Explained'
  <2>1. /\ calls[i].kind \in {"approved", "refresh"} /\ calls[i].run \in Runs
        /\ calls[i].at \in Nat
    BY <1>7, FinalCases
  <2>2. CASE ShowsAnswer(i)
    <3>1. PICK p, view, n :
            /\ Shown(p) /\ p.run = view
            /\ n \in calls[i].at..Len(log[calls[i].run])
            /\ view.state = log[calls[i].run][n]
            /\ calls[i].kind = "approved" \/ view.state = "completed" \/ p.error
            /\ SetActive(p, IF view.state \in StreamEndStates THEN None ELSE page.active)
      BY <2>2 DEF ShowsAnswer
    <3>2. page'.run = view /\ page'.error = p.error
      <4>1. PICK r \in Runs \cup {None} : SetActive(p, r)
        BY <3>1, PageIsShown
      <4> QED
        BY <3>1, <4>1, Goes DEF Shown
    <3>3. CASE calls[i].kind = "approved"
      <4>1. /\ Last(log[calls[i].run]) = "completed"
            /\ calls[i].at = Len(log[calls[i].run])
        BY <3>3 DEF ReceiptsStand, Receipt
      <4>2. n = Len(log[calls[i].run])
        BY <2>1, <3>1, <4>1
      <4>3. view.state = "completed"
        BY <3>1, <4>1, <4>2 DEF Last
      <4> QED
        BY <3>2, <4>3, Explanations DEF StreamEndStates
    <3>4. CASE view.state = "completed" \/ p.error
      BY <3>2, <3>4, Explanations DEF StreamEndStates
    <3> QED
      BY <3>1, <3>3, <3>4
  <2>3. CASE calls' = [calls EXCEPT ![i] = Ask("refresh", calls[i].run)]
    BY <2>3, AskingExplains DEF CallKind
  <2>4. CASE page'.error
    BY <2>4, Explanations
  <2> QED
    BY <1>7, <2>2, <2>3, <2>4, FinalCases
<1>8. ASSUME NEW i \in Slots, HandlerAnswered(i)
      PROVE  Explained'
  BY <1>3, <1>5, <1>6, <1>7, <1>8 DEF HandlerAnswered
<1>9. CASE Reset
  BY <1>9, ResetCases, Goes, Explanations DEF Shown
<1>10. CASE Reload
  BY <1>10, Explanations DEF Reload, NewPage
<1>11. CASE OnEvent
  <2>1. InTransit /\ page.active \in Runs
    BY <1>11, EventInTransit DEF OnEvent
  <2>2. page'.active = page.active
    BY <1>11, <2>1, EventIsShown DEF OnEvent
  <2> QED
    BY <2>1, <2>2, NoneAssumption, Explanations
<1>12. CASE ReconcileAnswered \/ StreamErrorAnswered
  <2>1. page.active \in Runs /\ (Settles \/ Follows(page'))
    BY <1>12, ReconcileCases, StreamErrorCases
  <2> QED
    BY <2>1, SettlesCases, NoneAssumption, Explanations DEF Follows
<1>13. CASE OnStreamError
  BY <1>13, StreamErrorAsks, Explanations DEF Follows
<1> QED
  BY <1>2, <1>3, <1>4, <1>8, <1>9, <1>10, <1>11, <1>12, <1>13 DEF Next

\* Awake holds of the first page.
LEMMA InitIsAwake == Init => Awake
<1> SUFFICES ASSUME Init PROVE Awake
  OBVIOUS
<1>1. page.active = None /\ page.run = None
  BY DEF Init, NewPage
<1>2. \A i \in Slots : Receipt(calls[i], log)
  BY NoReceipt DEF Init, Opening
<1> QED
  BY <1>1, <1>2 DEF Awake, Watched, Explained, Shows, ReceiptsStand

\* A page that shows a run still on its way follows it, waits for an answer,
\* says what went wrong or offers to resume, however many calls race, whatever
\* breaks, and wherever it is reloaded.
THEOREM PageNeverSilent == Spec => []NeverSilent
<1>1. Sound /\ Awake /\ [Next]_vars => Awake'
  BY WatchedStep, ExplainedStep, ReceiptsStep DEF Awake
<1>2. Sound /\ Awake => NeverSilent
  <2>1. Sound /\ page.run # None => page.run.state \in RunState
    BY PageIsShown DEF RunView
  <2> QED
    BY <2>1 DEF Awake, Watched, Explained, Shows, NeverSilent, Following
<1> QED
  BY <1>1, <1>2, InitIsAwake, Soundness, PTL DEF Spec

-----------------------------------------------------------------------------
(* The timeline is exact, as long as no answer about a run the user has    *)
(* left was shown in the place of another run.                             *)

\* The timeline is the beginning of run r's log.
Timeline(r, e, l) ==
  \A n \in DOMAIN e : e[n] = [run |-> r, sequence |-> n] /\ n <= Len(l[r])

\* A page without a run has an empty timeline; another one has the timeline of
\* the run it shows, and follows no other.
SoundTimeline(p, l) ==
  /\ p.lastSequence = Len(p.events)
  /\ p.run = None => p.active = None /\ p.events = <<>>
  /\ p.run # None => /\ Timeline(p.run.run, p.events, l)
                     /\ p.active \in {None, p.run.run}

\* The stream goes on where the timeline ends.
InStep(p, s, l) ==
  s # NoStream => /\ s.received = p.lastSequence
                  /\ s.received <= s.cursor /\ s.cursor <= Len(l[s.run])

InOrder == SoundTimeline(page, log) /\ InStep(page, stream, log)

\* A page that is recovering shows and follows nothing yet, and has asked for
\* nothing but the saved run.
RecoversFirst ==
  page.recovering =>
    /\ page.run = None /\ page.active = None
    /\ \A i \in Slots : calls[i].kind \in {None, "recover"}

Exact == (~ page.strayed => InOrder) /\ RecoversFirst

\* What is in order stays in order when the log grows.
LEMMA LogKeepsOrder ==
  ASSUME Sound, InOrder, NEW r \in Runs, UNCHANGED <<stream, pageVars>>,
         Transition(r) \/ (~ Exists(r) /\ Create(r))
  PROVE  InOrder'
<1>1. log \in [Runs -> Seq(RunState)] /\ log' \in [Runs -> Seq(RunState)] /\ Later(log, log')
  BY LogGrows DEF Sound
<1>2. \A q \in Runs : /\ Len(log[q]) \in Nat /\ Len(log'[q]) \in Nat
                      /\ Len(log'[q]) >= Len(log[q])
  BY <1>1, LenProperties DEF Later
<1>3. UNCHANGED <<page, stream, calls>>
  BY DEF pageVars
<1>4. ASSUME page.run # None
      PROVE  Timeline(page.run.run, page.events, log')
  <2>1. page.run.run \in Runs /\ Timeline(page.run.run, page.events, log)
    BY <1>4, PageIsShown DEF InOrder, SoundTimeline
  <2>2. page.events \in Seq(Event)
    BY PageIsShown DEF Page, Events
  <2>3. DOMAIN page.events \subseteq Nat
    BY <2>2
  <2> QED
    BY <1>2, <2>1, <2>3 DEF Timeline
<1>5. ASSUME stream # NoStream
      PROVE  stream.cursor <= Len(log'[stream.run])
  <2>1. stream \in Stream /\ stream.cursor <= Len(log[stream.run])
    BY <1>5 DEF Sound, SoundPage, InOrder, InStep
  <2>2. stream.run \in Runs /\ stream.cursor \in Nat
    BY <2>1 DEF Stream
  <2> QED
    BY <1>2, <2>1, <2>2
<1>6. SoundTimeline(page, log') /\ InStep(page, stream, log')
  BY <1>4, <1>5 DEF InOrder, SoundTimeline, InStep
<1> QED
  BY <1>3, <1>6 DEF InOrder

\* And when the server reads.
LEMMA ServeKeepsOrder ==
  ASSUME Sound, InOrder, ServerPolls
  PROVE  InOrder'
<1>1. UNCHANGED <<page, calls>> /\ Serve
  BY DEF ServerPolls, pageVars
<1>2. log \in [Runs -> Seq(RunState)] /\ stream \in Stream \cup {NoStream}
  BY DEF Sound, SoundPage
<1>3. stream # NoStream => stream \in Stream /\ stream.run \in Runs /\ Exists(stream.run)
  BY <1>2, NoneAssumption DEF Sound, SoundPage, Stream, Known, Exists
<1>4. /\ UNCHANGED log /\ stream # NoStream /\ stream' \in Stream
      /\ stream'.run = stream.run /\ stream'.received = stream.received
      /\ stream'.cursor = stream.cursor \/ stream'.cursor = Len(log[stream.run])
      /\ stream'.cursor >= stream.cursor
  BY <1>1, <1>2, <1>3, ServeKeepsStream
<1>5. /\ stream.received \in Nat /\ stream.cursor \in Nat /\ stream'.cursor \in Nat
      /\ Len(log[stream.run]) \in Nat
  BY <1>2, <1>3, <1>4, LenProperties DEF Stream
<1>6. InStep(page, stream', log)
  BY <1>4, <1>5 DEF InOrder, InStep
<1> QED
  BY <1>1, <1>4, <1>6 DEF InOrder

\* A timeline is no longer than the log.
LEMMA TimelineLength ==
  ASSUME log \in [Runs -> Seq(RunState)], NEW e \in Events, NEW r \in Runs,
         Timeline(r, e, log)
  PROVE  /\ Len(e) \in Nat /\ Len(e) <= Len(log[r]) /\ DOMAIN e = 1..Len(e)
<1>1. Len(e) \in Nat /\ DOMAIN e = 1..Len(e)
  BY LenProperties DEF Events
<1>2. Len(log[r]) \in Nat
  BY LenProperties
<1>3. CASE Len(e) = 0
  BY <1>1, <1>2, <1>3
<1>4. CASE Len(e) # 0
  BY <1>1, <1>4 DEF Timeline
<1> QED
  BY <1>1, <1>3, <1>4

\* The timeline of a page, of the run it shows or is about to show.
LEMMA PageTimeline ==
  ASSUME Sound, InOrder, NEW r \in Runs, page.run = None \/ page.run.run = r
  PROVE  /\ Timeline(r, page.events, log) /\ page.lastSequence = Len(page.events)
         /\ page.lastSequence \in Nat /\ page.lastSequence <= Len(log[r])
         /\ page.active \in {None, r}
<1>1. page.events \in Events /\ log \in [Runs -> Seq(RunState)]
  BY PageIsShown DEF Page
<1>2. Timeline(r, page.events, log)
  <2>1. CASE page.run = None
    <3>1. page.events = <<>>
      BY <2>1 DEF InOrder, SoundTimeline
    <3>2. DOMAIN page.events = {}
      BY <3>1
    <3> QED
      BY <3>2 DEF Timeline
  <2>2. CASE page.run # None
    BY <2>2 DEF InOrder, SoundTimeline
  <2> QED
    BY <2>1, <2>2
<1>3. Len(page.events) \in Nat /\ Len(page.events) <= Len(log[r])
  BY <1>1, <1>2, TimelineLength
<1> QED
  BY <1>2, <1>3 DEF InOrder, SoundTimeline

\* A page without a run has nothing of another one's.
LEMMA BlankPage ==
  ASSUME Sound, InOrder, page.run = None
  PROVE  /\ page.active = None /\ page.events = <<>> /\ page.lastSequence = 0
         /\ stream = NoStream
BY DEF Sound, SoundPage, InOrder, SoundTimeline

\* Showing a run on an empty page, or the run that is shown, keeps the timeline
\* exact, whether it is followed from now on, as before, or no longer.
LEMMA GoingIsExact ==
  ASSUME Sound, InOrder, UNCHANGED log, NEW p, Shown(p),
         p.lastSequence = page.lastSequence, p.events = page.events,
         p.run # None, page.run = None \/ page.run.run = p.run.run,
         NEW r \in {None, page.active, p.run.run}, SetActive(p, r)
  PROVE  SoundTimeline(page', log') /\ InStep(page', stream', log')
<1>1. p \in Page /\ p.active = page.active /\ p.run \in RunView /\ p.run.run \in Runs
  BY DEF Shown, Page, RunView
<1>2. /\ Timeline(p.run.run, page.events, log) /\ page.lastSequence = Len(page.events)
      /\ page.lastSequence \in Nat /\ page.lastSequence <= Len(log[p.run.run])
      /\ page.active \in {None, p.run.run}
  BY <1>1, PageTimeline
<1>3. r \in {None, p.run.run} /\ r \in Runs \cup {None}
  BY <1>1, <1>2
<1>4. /\ page'.active = r /\ page'.run = p.run /\ page'.lastSequence = page.lastSequence
      /\ page'.events = page.events
      /\ \/ UNCHANGED stream
         \/ stream' = NoStream
         \/ r # None /\ stream' = Opened(r, page.lastSequence)
  BY <1>1, <1>3, Goes
<1>5. SoundTimeline(page', log)
  BY <1>2, <1>3, <1>4 DEF SoundTimeline
<1>6. InStep(page', stream', log)
  <2>1. CASE UNCHANGED stream
    BY <1>4, <2>1 DEF InOrder, InStep
  <2>2. CASE stream' = NoStream
    BY <2>2 DEF InStep
  <2>3. CASE r # None /\ stream' = Opened(r, page.lastSequence)
    <3>1. r = p.run.run
      BY <1>3, <2>3
    <3>2. /\ stream'.received = page.lastSequence /\ stream'.cursor = page.lastSequence
          /\ stream'.run = p.run.run
      BY <1>1, <1>2, <2>3, <3>1, OpenedIsStream
    <3> QED
      BY <1>2, <1>4, <3>2 DEF InStep
  <2> QED
    BY <1>4, <2>1, <2>2, <2>3
<1> QED
  BY <1>5, <1>6

\* So does following the run that is followed.
LEMMA FollowingIsExact ==
  ASSUME Sound, InOrder, UNCHANGED log, Follows(page'), page.active # None,
         \/ UNCHANGED stream
         \/ stream' = NoStream
         \/ stream' = Opened(page.active, page.lastSequence)
  PROVE  SoundTimeline(page', log') /\ InStep(page', stream', log')
<1>1. page.active \in Runs /\ page.run # None /\ page.run.run = page.active
  BY PageIsShown DEF InOrder, SoundTimeline
<1>2. /\ Timeline(page.active, page.events, log) /\ page.lastSequence = Len(page.events)
      /\ page.lastSequence \in Nat /\ page.lastSequence <= Len(log[page.active])
  BY <1>1, PageTimeline
<1>3. /\ page'.active = page.active /\ page'.lastSequence = page.lastSequence
      /\ page'.events = page.events /\ page'.run # None /\ page'.run.run = page.active
  BY <1>1 DEF Follows
<1>4. SoundTimeline(page', log)
  BY <1>2, <1>3 DEF SoundTimeline
<1>5. InStep(page', stream', log)
  <2>1. CASE UNCHANGED stream
    BY <1>3, <2>1 DEF InOrder, InStep
  <2>2. CASE stream' = NoStream
    BY <2>2 DEF InStep
  <2>3. CASE stream' = Opened(page.active, page.lastSequence)
    <3>1. /\ stream'.received = page.lastSequence /\ stream'.cursor = page.lastSequence
          /\ stream'.run = page.active
      BY <1>1, <1>2, <2>3, OpenedIsStream
    <3> QED
      BY <1>2, <1>3, <3>1 DEF InStep
  <2> QED
    BY <2>1, <2>2, <2>3
<1> QED
  BY <1>4, <1>5

\* A page that recovers nothing any more need only be in order, if at all.
LEMMA ExactIfInOrder ==
  ASSUME ~ page'.recovering, page'.strayed \/ InOrder'
  PROVE  Exact'
BY DEF Exact, RecoversFirst

\* A page on which no answer has strayed shows no run, or the answer's.
LEMMA NotStrayed ==
  ASSUME Sound, Exact, NEW i \in Slots, NEW p,
         page.strayed => p.strayed, Strays(i) => p.strayed, ~ p.strayed
  PROVE  InOrder /\ (page.run = None \/ page.run.run = calls[i].run)
BY DEF Exact, Strays

\* Exact is kept by the answers that are shown: of a creation, of going on with
\* the snapshot, and of the GETs after an approval.
LEMMA ShownAnswerIsExact ==
  ASSUME Sound, Exact, NEW i \in Slots, ~ page.recovering, UNCHANGED log,
         NEW p, Shown(p), Keeps(p), p.run # None, p.run.run = calls[i].run,
         Strays(i) => p.strayed,
         NEW r \in {None, page.active, calls[i].run}, calls[i].run \in Runs,
         SetActive(p, r)
  PROVE  Exact'
<1>1. r \in Runs \cup {None}
  BY PageIsShown
<1>2. /\ page'.recovering = page.recovering /\ page'.strayed = p.strayed
  BY <1>1, Goes DEF Shown, Keeps
<1>3. CASE p.strayed
  BY <1>2, <1>3, ExactIfInOrder
<1>4. CASE ~ p.strayed
  <2>1. InOrder /\ (page.run = None \/ page.run.run = calls[i].run)
    BY <1>4, NotStrayed DEF Keeps
  <2>2. SoundTimeline(page', log') /\ InStep(page', stream', log')
    BY <2>1, GoingIsExact DEF Keeps
  <2> QED
    BY <1>2, <2>2, ExactIfInOrder DEF InOrder
<1> QED
  BY <1>3, <1>4

\* Exact is kept by the handlers of calls.
LEMMA HandlersAreExact ==
  ASSUME Sound, Exact, NEW i \in Slots,
         \/ \E r \in Runs : Analyze(i, r)
         \/ ServeCreate(i) \/ Approve(i) \/ Continue(i) \/ HandlerAnswered(i)
  PROVE  Exact'
<1>1. calls[i].kind \in {"create", "continue", "approve", "approved", "refresh"}
        => ~ page.recovering
  BY NoneAssumption DEF Exact, RecoversFirst, CallKind
<1>2. page.run # None => ~ page.recovering
  BY DEF Exact, RecoversFirst
<1>3. ASSUME Shown(page'), page'.run = page.run, page'.lastSequence = page.lastSequence,
             page'.events = page.events, UNCHANGED <<log, stream>>,
             page'.strayed = page.strayed
      PROVE  page'.strayed \/ InOrder'
  BY <1>3 DEF Shown, Exact, InOrder, SoundTimeline, InStep
<1>4. ASSUME NEW r \in Runs, Analyze(i, r)
      PROVE  Exact'
  <2>1. /\ Shown(page') /\ Fresh(page') /\ page.run = None /\ page'.run = None
        /\ page'.strayed = page.strayed /\ UNCHANGED <<log, stream>>
    BY <1>4, AnalyzeCases
  <2>2. ASSUME ~ page.strayed
        PROVE  page'.strayed \/ InOrder'
    BY <1>3, <2>1, <2>2, BlankPage DEF Exact, Fresh
  <2> QED
    BY <2>1, <2>2, ExactIfInOrder DEF Fresh
<1>5. CASE ServeCreate(i)
  <2>1. /\ UNCHANGED <<stream, pageVars>> /\ calls[i].run \in Runs
        /\ ~ Exists(calls[i].run) /\ Create(calls[i].run)
    BY <1>5, WaitingCall DEF ServeCreate, CallKind
  <2>2. ~ page.strayed => InOrder'
    BY <2>1, LogKeepsOrder DEF Exact
  <2> QED
    BY <2>1, <2>2 DEF Exact, RecoversFirst, pageVars
<1>6. CASE Approve(i)
  <2>1. PICK p : Shown(p) /\ Keeps(p) /\ p.run = page.run /\ SetActive(p, page.run.run)
    BY <1>6, ApproveCases
  <2>2. page.run # None /\ page.run.run \in Runs /\ UNCHANGED log
    BY <1>6, ApproveCases
  <2>3. ~ page'.recovering /\ (page.strayed => page'.strayed)
    BY <1>2, <2>1, <2>2, Goes DEF Shown, Keeps
  <2>4. ASSUME ~ page.strayed
        PROVE  SoundTimeline(page', log') /\ InStep(page', stream', log')
    BY <2>1, <2>2, <2>4, GoingIsExact DEF Keeps, Exact
  <2> QED
    BY <2>3, <2>4, ExactIfInOrder DEF InOrder
<1>7. CASE Continue(i) \/ CallFails(i)
  <2>1. page'.strayed \/ InOrder'
    BY <1>3, <1>7, QuietCases
  <2>2. ~ page.recovering
    BY <1>1, <1>2, <1>7 DEF Continue, CallFails, Shows
  <2>3. ~ page'.recovering
    BY <1>7, <2>2, QuietCases
  <2> QED
    BY <2>1, <2>3, ExactIfInOrder
<1>8. CASE RecoveryFails(i)
  <2>1. page'.strayed \/ InOrder'
    BY <1>3, <1>8, QuietCases
  <2>2. ~ page'.recovering
    BY <1>8, PageIsShown DEF RecoveryFails, Page
  <2> QED
    BY <2>1, <2>2, ExactIfInOrder
<1>9. CASE CreateAnswered(i) \/ ContinueAnswered(i)
  <2>1. PICK p : /\ Shown(p) /\ Keeps(p) /\ p.run # None /\ p.run.run = calls[i].run
                 /\ Strays(i) => p.strayed
                 /\ SetActive(p, calls[i].run)
    BY <1>9, StartedCases
  <2>2. calls[i].run \in Runs /\ UNCHANGED log
    BY <1>9, StartedCases
  <2>3. ~ page.recovering
    BY <1>1, <1>9 DEF CreateAnswered, ContinueAnswered
  <2> QED
    BY <2>1, <2>2, <2>3, ShownAnswerIsExact
<1>10. CASE ApproveAnswered(i)
  <2>1. UNCHANGED <<log, page, stream>> /\ ~ page.recovering
    BY <1>1, <1>10 DEF ApproveAnswered, eventVars
  <2>2. page'.strayed \/ InOrder'
    BY <2>1 DEF Exact, InOrder
  <2> QED
    BY <2>1, <2>2, ExactIfInOrder
<1>11. CASE ApprovedAnswered(i) \/ RefreshAnswered(i)
  <2>1. calls[i].kind \in {"approved", "refresh"} /\ UNCHANGED log /\ calls[i].run \in Runs
    BY <1>11, FinalCases
  <2>2. ~ page.recovering
    BY <1>1, <2>1
  <2>3. CASE ShowsAnswer(i)
    <3>1. PICK p, view :
            /\ Shown(p) /\ Keeps(p) /\ p.run = view /\ view \in RunView
            /\ view.run = calls[i].run /\ (Strays(i) => p.strayed)
            /\ SetActive(p, IF view.state \in StreamEndStates THEN None ELSE page.active)
      BY <2>3 DEF ShowsAnswer
    <3>2. PICK r \in {None, page.active} : SetActive(p, r)
      BY <3>1
    <3>3. view # None
      BY <3>1, NoneAssumption
    <3> QED
      BY <2>1, <2>2, <3>1, <3>2, <3>3, ShownAnswerIsExact
  <2>4. CASE UNCHANGED <<page, stream>>
    <3>1. page'.strayed \/ InOrder'
      BY <2>1, <2>4 DEF Exact, InOrder
    <3> QED
      BY <2>2, <2>4, <3>1, ExactIfInOrder
  <2>5. CASE /\ Shown(page') /\ Keeps(page') /\ page'.run = page.run
             /\ page'.strayed = page.strayed /\ UNCHANGED stream
    <3>1. page'.strayed \/ InOrder'
      BY <1>3, <2>1, <2>5 DEF Keeps
    <3> QED
      BY <2>2, <2>5, <3>1, ExactIfInOrder DEF Keeps
  <2> QED
    BY <1>11, <2>3, <2>4, <2>5, FinalCases
<1>12. CASE Recovered(i)
  <2>1. PICK p : /\ Shown(p) /\ Fresh(p) /\ p.run # None /\ p.run.run = calls[i].run
                 /\ p.strayed = page.strayed /\ SetActive(p, calls[i].run)
    BY <1>12, RecoveredCases
  <2>2. calls[i].run \in Runs /\ UNCHANGED log /\ page.recovering
    BY <1>12, RecoveredCases
  <2>3. page.run = None
    BY <2>2 DEF Exact, RecoversFirst
  <2>4. ~ page'.recovering /\ page'.strayed = page.strayed
    BY <2>1, <2>2, Goes DEF Shown, Fresh
  <2>5. ASSUME ~ page.strayed
        PROVE  SoundTimeline(page', log') /\ InStep(page', stream', log')
    <3>1. InOrder
      BY <2>5 DEF Exact
    <3>2. page.events = <<>> /\ page.lastSequence = 0
      BY <2>3, <3>1, BlankPage
    <3> QED
      BY <2>1, <2>2, <2>3, <3>1, <3>2, GoingIsExact DEF Fresh
  <2> QED
    BY <2>4, <2>5, ExactIfInOrder DEF InOrder
<1> QED
  BY <1>4, <1>5, <1>6, <1>7, <1>8, <1>9, <1>10, <1>11, <1>12 DEF HandlerAnswered

\* Exact is kept by reset().
LEMMA ResetIsExact ==
  ASSUME Sound, Exact, Reset
  PROVE  Exact'
<1>1. PICK p : Shown(p) /\ Fresh(p) /\ p.run = None /\ SetActive(p, None)
  BY ResetCases
<1>3. /\ page'.active = None /\ page'.run = None /\ page'.lastSequence = 0
      /\ page'.events = <<>> /\ ~ page'.recovering
      /\ (stream' = stream /\ page.active = None) \/ stream' = NoStream
  BY <1>1, Goes DEF Shown, Fresh
<1>4. stream' = NoStream
  BY <1>3 DEF Sound, SoundPage
<1>5. SoundTimeline(page', log') /\ InStep(page', stream', log')
  BY <1>3, <1>4 DEF SoundTimeline, InStep
<1> QED
  BY <1>3, <1>5, ExactIfInOrder DEF InOrder

\* Exact is kept by a reload.
LEMMA OpenedPageIsExact ==
  ASSUME NEW recovering \in BOOLEAN, page' = NewPage(recovering), stream' = NoStream,
         NEW saved, calls' = Opening(saved)
  PROVE  Exact'
<1>1. /\ page'.run = None /\ page'.active = None /\ page'.events = <<>>
      /\ page'.lastSequence = 0
  BY DEF NewPage
<1>2. SoundTimeline(page', log') /\ InStep(page', stream', log')
  BY <1>1 DEF SoundTimeline, InStep
<1>3. \A i \in Slots : calls'[i].kind \in {None, "recover"}
  BY DEF Opening, Ask, NoCall
<1> QED
  BY <1>1, <1>2, <1>3 DEF Exact, InOrder, RecoversFirst

\* onEvent keeps a page in order: the event is the next one of the run that is
\* shown.
LEMMA OnEventKeepsOrder ==
  ASSUME Sound, InOrder, OnEvent
  PROVE  InOrder'
<1>1. InTransit
  BY DEF OnEvent
<1>2. /\ stream \in Stream /\ stream # NoStream /\ stream.run = page.active
      /\ page.active \in Runs /\ page.active # None
      /\ stream.received \in Nat /\ stream.cursor \in Nat
      /\ stream.received < stream.cursor /\ stream.cursor <= Len(log[page.active])
      /\ NextEvent.sequence = stream.received + 1
  BY <1>1, EventInTransit, NoneAssumption DEF InTransit, Sound, SoundPage
<1>3. page.run # None /\ page.run.run = page.active
  BY <1>2 DEF InOrder, SoundTimeline
<1>4. /\ Timeline(page.active, page.events, log) /\ page.lastSequence = Len(page.events)
      /\ page.lastSequence \in Nat
  BY <1>2, <1>3, PageTimeline
<1>5. stream.received = page.lastSequence
  BY <1>2 DEF InOrder, InStep
<1>6. ~ NextEvent.sequence <= page.lastSequence
  BY <1>2, <1>5
<1> DEFINE m == page.lastSequence + 1
           e == [run |-> page.active, sequence |-> m]
<1>7. /\ page'.active = page.active
      /\ page'.lastSequence = m /\ page'.events = Append(page.events, e)
      /\ page'.run # None /\ page'.run.run = page.run.run
  BY <1>1, <1>2, <1>3, <1>5, <1>6, EventIsShown
<1>8. /\ stream' # NoStream /\ stream'.run = stream.run /\ stream'.cursor = stream.cursor
      /\ stream'.received = m /\ UNCHANGED <<log, calls>>
  BY <1>1, <1>5, StreamAdvances
<1>9. page.events \in Events /\ e \in Event /\ Len(log[page.active]) \in Nat
  BY <1>2, <1>4, PageIsShown, LenProperties DEF Page, Event
<1>10. /\ DOMAIN page.events = 1..page.lastSequence
       /\ DOMAIN Append(page.events, e) = 1..m /\ Len(Append(page.events, e)) = m
       /\ \A n \in 1..page.lastSequence : Append(page.events, e)[n] = page.events[n]
       /\ Append(page.events, e)[m] = e
  BY <1>4, <1>9, AppendProperties DEF Events
<1>11. m <= Len(log[page.active])
  BY <1>2, <1>4, <1>5, <1>9
<1>12. Timeline(page.active, Append(page.events, e), log)
  <2> SUFFICES ASSUME NEW n \in 1..m
               PROVE  /\ Append(page.events, e)[n] = [run |-> page.active, sequence |-> n]
                      /\ n <= Len(log[page.active])
    BY <1>10 DEF Timeline
  <2>1. CASE n = m
    BY <1>10, <1>11, <2>1
  <2>2. CASE n # m
    <3>1. n \in 1..page.lastSequence
      BY <1>4, <2>2
    <3> QED
      BY <1>4, <1>10, <3>1 DEF Timeline
  <2> QED
    BY <2>1, <2>2
<1>13. SoundTimeline(page', log')
  BY <1>3, <1>7, <1>8, <1>10, <1>12 DEF SoundTimeline
<1>14. InStep(page', stream', log')
  BY <1>2, <1>4, <1>5, <1>7, <1>8 DEF InStep
<1> QED
  BY <1>13, <1>14 DEF InOrder

\* Exact is kept by onEvent.
LEMMA OnEventIsExact ==
  ASSUME Sound, Exact, OnEvent
  PROVE  Exact'
<1>1. InTransit
  BY DEF OnEvent
<1>2. page.active # None
  BY <1>1, EventInTransit, NoneAssumption DEF InTransit, Sound, SoundPage
<1>3. page'.recovering = page.recovering /\ page'.strayed = page.strayed
  <2>1. CASE NextEvent.sequence <= page.lastSequence
    BY <2>1 DEF OnEvent
  <2>2. CASE ~ NextEvent.sequence <= page.lastSequence
    BY <1>1, <2>2, EventIsShown
  <2> QED
    BY <2>1, <2>2
<1>4. ~ page'.recovering
  BY <1>2, <1>3 DEF Exact, RecoversFirst
<1>5. page'.strayed \/ InOrder'
  BY <1>3, OnEventKeepsOrder DEF Exact
<1> QED
  BY <1>4, <1>5, ExactIfInOrder

\* Exact is kept by the page's following: its answers, and the end of a stream.
LEMMA FollowingKeepsExact ==
  ASSUME Sound, Exact, ReconcileAnswered \/ OnStreamError \/ StreamErrorAnswered
  PROVE  Exact'
<1>1. UNCHANGED <<log, calls>>
  BY DEF ReconcileAnswered, OnStreamError, StreamErrorAnswered
<1>2. page.active \in Runs /\ page.active # None
  BY ReconcileCases, StreamErrorAsks, StreamErrorCases, NoneAssumption
<1>3. ~ page.recovering
  BY <1>2 DEF Exact, RecoversFirst
<1>4. ASSUME Follows(page'),
             \/ UNCHANGED stream
             \/ stream' = NoStream
             \/ stream' = Opened(page.active, page.lastSequence)
      PROVE  Exact'
  <2>1. ASSUME InOrder
        PROVE  SoundTimeline(page', log') /\ InStep(page', stream', log')
    BY <1>1, <1>2, <1>4, <2>1, FollowingIsExact
  <2>2. page'.recovering = page.recovering /\ page'.strayed = page.strayed
    BY <1>4 DEF Follows
  <2> QED
    BY <1>3, <2>1, <2>2, ExactIfInOrder DEF Exact, InOrder
<1>5. CASE Settles
  <2>1. /\ page'.active = None /\ page'.recovering = page.recovering
        /\ page'.strayed = page.strayed
        /\ page'.lastSequence = page.lastSequence /\ page'.events = page.events
        /\ page'.run # None /\ page'.run.run = page.active /\ stream' = NoStream
    BY <1>2, <1>5, SettlesCases, NoneAssumption
  <2>2. ASSUME InOrder
        PROVE  SoundTimeline(page', log') /\ InStep(page', stream', log')
    <3>1. page.run # None /\ page.run.run = page.active
      BY <1>2, <2>2 DEF InOrder, SoundTimeline
    <3> QED
      BY <1>1, <2>1, <2>2, <3>1 DEF InOrder, SoundTimeline, InStep
  <2> QED
    BY <1>3, <2>1, <2>2, ExactIfInOrder DEF Exact, InOrder
<1>6. CASE ReconcileAnswered
  BY <1>4, <1>5, <1>6, ReconcileCases
<1>7. CASE OnStreamError
  BY <1>4, <1>7, StreamErrorAsks
<1>8. CASE StreamErrorAnswered
  BY <1>4, <1>5, <1>8, StreamErrorCases
<1> QED
  BY <1>6, <1>7, <1>8

\* Exact holds of the first page, and every step keeps it.
LEMMA InitIsExact == Init => Exact
<1> SUFFICES ASSUME Init PROVE Exact
  OBVIOUS
<1>1. /\ page.run = None /\ page.active = None /\ page.events = <<>>
      /\ page.lastSequence = 0 /\ stream = NoStream
  BY DEF Init, EventInit, NewPage
<1>2. SoundTimeline(page, log) /\ InStep(page, stream, log)
  BY <1>1 DEF SoundTimeline, InStep
<1>3. \A i \in Slots : calls[i].kind \in {None, "recover"}
  BY DEF Init, Opening, Ask, NoCall
<1> QED
  BY <1>1, <1>2, <1>3 DEF Exact, InOrder, RecoversFirst

LEMMA ExactStep == Sound /\ Exact /\ [Next]_vars => Exact'
<1> SUFFICES ASSUME Sound, Exact, [Next]_vars PROVE Exact'
  OBVIOUS
<1>1. CASE Environment
  <2>1. PICK r \in Runs : Transition(r) /\ UNCHANGED pageVars
    BY <1>1 DEF Environment
  <2>2. UNCHANGED stream
    BY <2>1 DEF Transition
  <2>3. ~ page.strayed => InOrder'
    BY <2>1, <2>2, LogKeepsOrder DEF Exact
  <2> QED
    BY <2>1, <2>3 DEF Exact, RecoversFirst, pageVars
<1>2. CASE ServerPolls
  <2>1. ~ page.strayed => InOrder'
    BY <1>2, ServeKeepsOrder DEF Exact
  <2> QED
    BY <1>2, <2>1 DEF Exact, RecoversFirst, ServerPolls, pageVars
<1>3. ASSUME NEW i \in Slots,
             \/ \E r \in Runs : Analyze(i, r)
             \/ ServeCreate(i) \/ Approve(i) \/ Continue(i) \/ HandlerAnswered(i)
      PROVE  Exact'
  BY <1>3, HandlersAreExact
<1>4. CASE Reset \/ OnEvent
  BY <1>4, ResetIsExact, OnEventIsExact
<1>5. CASE Reload
  BY <1>5, OpenedPageIsExact DEF Reload
<1>6. CASE ReconcileAnswered \/ OnStreamError \/ StreamErrorAnswered
  BY <1>6, FollowingKeepsExact
<1>7. CASE UNCHANGED vars
  BY <1>7 DEF vars, eventVars, pageVars, Exact, InOrder, RecoversFirst
<1> QED
  BY <1>1, <1>2, <1>3, <1>4, <1>5, <1>6, <1>7 DEF Next

\* The timeline a page shows has no gap, no repetition and no event of another
\* run: it is the beginning of the log of the run that is shown, across
\* reconnections, reloads, resets and however many calls that are answered late,
\* unless an answer about a run the user has left was shown in the place of
\* another run.
THEOREM TimelineExact == Spec => []TimelineIsExact
<1>1. Sound /\ Exact => TimelineIsExact
  <2> SUFFICES ASSUME Sound, Exact, ~ page.strayed
               PROVE  /\ page.lastSequence = Len(page.events)
                      /\ \E r \in Runs : /\ page.run = None \/ page.run.run = r
                                         /\ Timeline(r, page.events, log)
    BY DEF TimelineIsExact, Timeline
  <2>1. PICK r \in Runs : page.run = None \/ page.run.run = r
    BY RunsAssumption, PageIsShown
  <2>2. Timeline(r, page.events, log) /\ page.lastSequence = Len(page.events)
    BY <2>1, PageTimeline DEF Exact
  <2> QED
    BY <2>1, <2>2
<1>2. Sound /\ Exact /\ [Next]_vars => Exact'
  BY ExactStep
<1> QED
  BY <1>1, <1>2, InitIsExact, Soundness, PTL DEF Spec
=============================================================================
