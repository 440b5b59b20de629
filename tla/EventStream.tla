---------------------------- MODULE EventStream ----------------------------
(***************************************************************************)
(* The event log of the runs and the server-sent stream that reads it:     *)
(* run_events in apps/api/src/changesafe/store.py and event_stream in      *)
(* api.py.  A transition appends the new state to the log of its run in    *)
(* the transaction that moves the run, so a run's state is the last entry  *)
(* of its log and a sequence number is a position in it.                   *)
(*                                                                         *)
(* The stream polls.  Each round is two or three queries, and the run may  *)
(* move between any two of them.  What the server has yielded and the      *)
(* client has not yet handled is in transit, in order: the entries after   *)
(* "received" up to "cursor".                                              *)
(***************************************************************************)
EXTENDS RunStore, Sequences, SequencesExt

CONSTANTS
  Runs,        \* run identifiers
  Earlier,     \* the log each run has when the page is first opened
  Visited,     \* the states each run may enter in this instance
  MaxFailures  \* bound: how often the publication of one run fails

ASSUME RunsAssumption == Runs # {}
ASSUME VisitedAssumption == Visited \in [Runs -> SUBSET RunState]
ASSUME EarlierAssumption ==
  /\ Earlier \in [Runs -> Seq(RunState)]
  /\ \A r \in Runs : /\ Earlier[r] = <<>> \/ Earlier[r][1] = "created"
                     /\ \A n \in 2..Len(Earlier[r]) :
                          Earlier[r][n] \in AllowedTransitions[Earlier[r][n - 1]]
ASSUME MaxFailuresAssumption == MaxFailures \in Nat

VARIABLES
  log,      \* run -> the states it has entered, in order
  stream    \* the open event stream, or NoStream

eventVars == <<log, stream>>

StreamEndStates == {"awaiting_approval", "completed", "failed",
                    "publication_failed", "context_fallback_required"}

NoStream == [run |-> None]

Stream == [run : Runs, pc : {"run", "events", "recheck", "closed"},
           seen : RunState \cup {None}, cursor : Nat, received : Nat]

EventTypeOK ==
  /\ log \in [Runs -> Seq(RunState)]
  /\ stream \in Stream \cup {NoStream}

EventInit == log = Earlier /\ stream = NoStream

-----------------------------------------------------------------------------
(* The log.                                                                *)

Exists(r) == log[r] # <<>>

State(r) == Last(log[r])

\* create(): the first event is stored with the row.
Create(r) == log' = [log EXCEPT ![r] = <<"created">>]

Failures(r) ==
  Len(SelectSeq(log[r], LAMBDA s : s = "publication_failed"))

\* transition(): the server, or an approval of any client, moves the run.
Transition(r) ==
  /\ Exists(r)
  /\ \E to \in AllowedTransitions[State(r)] \cap Visited[r] :
       /\ to = "publication_failed" => Failures(r) < MaxFailures
       /\ to = "context_fallback_required" =>     \* offered once (Analysis)
            ~ Contains(log[r], "context_fallback_required")
       /\ log' = [log EXCEPT ![r] = Append(@, to)]
  /\ UNCHANGED stream

-----------------------------------------------------------------------------
(* The server's end of the stream.                                         *)

\* run_events: a new connection starts after the sequence it is given.
Opened(r, after) ==
  [run |-> r, pc |-> "run", seen |-> None, cursor |-> after,
   received |-> after]

Streaming(pc) == stream # NoStream /\ stream.pc = pc

\* store.get(): the state as it is now.
ReadRun ==
  /\ Streaming("run")
  /\ stream' = [stream EXCEPT !.pc = "events", !.seen = State(stream.run)]
  /\ UNCHANGED log

\* store.events(): all that is stored after the cursor is yielded.
ReadEvents ==
  /\ Streaming("events")
  /\ LET stored == Len(log[stream.run]) IN
     stream' = [stream EXCEPT !.pc = "recheck",
                              !.cursor = IF stored > @ THEN stored ELSE @]
  /\ UNCHANGED log

\* Fault: the stream ends on the state it read before the events.
EndedTrusting == stream.seen \in StreamEndStates

\* An end state is believed only if nothing has been stored meanwhile.
Ended ==
  /\ stream.seen \in StreamEndStates
  /\ Len(log[stream.run]) <= stream.cursor

\* The stream ends, or sleeps and polls again.
Recheck ==
  /\ Streaming("recheck")
  /\ stream' = [stream EXCEPT !.pc = IF Ended THEN "closed" ELSE "run"]
  /\ UNCHANGED log

Serve == ReadRun \/ ReadEvents \/ Recheck

-----------------------------------------------------------------------------
(* The client's end.                                                       *)

InTransit == stream # NoStream /\ stream.received < stream.cursor

NextEvent == [sequence |-> stream.received + 1,
              state    |-> log[stream.run][stream.received + 1]]

\* The client has handled every event of a stream the server has ended.
Drained == Streaming("closed") /\ stream.received >= stream.cursor

-----------------------------------------------------------------------------
(* docs/architecture.md: "Terminal streams close only after all stored     *)
(* events are delivered."  When the server ends a stream, every event the  *)
(* run has by then has been yielded.  (The run may have left the end state *)
(* the stream has seen: then the client reconnects.)                       *)
StreamClosesAfterAll ==
  [][(stream' # NoStream /\ stream'.pc = "closed" /\ stream.pc # "closed") =>
       stream'.cursor >= Len(log[stream.run])]_eventVars
=============================================================================
