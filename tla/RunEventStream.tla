---------------------------- MODULE RunEventStream ----------------------------
(***************************************************************************)
(* How the history of a run reaches the one who watches it                 *)
(* (postgres-runtime-store.ts, runtime-event-stream.ts, and the hook       *)
(* useRuntimeEventStream.ts of the operator's panel).  Writers number      *)
(* their events under the lock of the run's row; a stream polls for the    *)
(* events after its cursor and mixes in live events, which have no number; *)
(* the watcher shows what it receives, a panel the newest of it only, and  *)
(* connects again after what it received last.  Events are of the watched  *)
(* task or of another one.                                                 *)
(***************************************************************************)
EXTENDS Integers, FiniteSets, SequencesExt

CONSTANTS
    Writers,      \* transactions that append to the history
    PanelLimit,   \* events a panel keeps on its list, 200 in the code
    MaxEvents,    \* bound: events of the history
    MaxLive,      \* bound: live events
    MaxLosses     \* bound: lost connections

ASSUME StreamBounds ==
    PanelLimit \in Nat \ {0} /\ {MaxEvents, MaxLive, MaxLosses} \subseteq Nat

VARIABLES
    history,   \* the committed events: of what task, and what they make of the run
    writers,   \* the transactions in progress, with the number they took
    ended,     \* the run has a terminal status
    stream,    \* the server's side of the connection: where its tick is, its cursor
    frames,    \* the frames on their way
    watcher,   \* what is shown, the id received last, whether it closes with the run
    liveEvents,  \* live events so far
    losses,    \* connections lost so far
    replayed,  \* history: a stream began anew after a live event
    switched   \* history: the watcher looked at something else meanwhile

streamVars ==
    <<history, writers, ended, stream, frames, watcher, liveEvents, losses, replayed, switched>>

EventKinds == {"step", "end", "reopen"}
Sequences == 1..MaxEvents
Live == -1  \* the id of a live event
Frames == Sequences \cup {Live}

StreamTypeOK ==
    /\ \A n \in DOMAIN history : history[n] \in [kind : EventKinds, mine : BOOLEAN]
    /\ writers \in [Writers -> 0..(MaxEvents + 1)]
    /\ ended \in BOOLEAN
    /\ stream \in [at : {"closed", "polling", "checking", "ending"}, after : 0..MaxEvents]
    /\ frames \in Seq(Frames)
    /\ watcher \in [shown : Seq(Frames), cursor : Frames \cup {0}, closes : BOOLEAN]
    /\ watcher.closes \/ Len(watcher.shown) <= PanelLimit
    /\ liveEvents \in 0..MaxLive
    /\ losses \in 0..MaxLosses
    /\ {replayed, switched} \subseteq BOOLEAN

StreamInit ==
    /\ history = << >>
    /\ writers = [w \in Writers |-> 0]
    /\ ended = FALSE
    /\ stream = [at |-> "closed", after |-> 0]
    /\ frames = << >>
    /\ watcher \in [shown : {<< >>}, cursor : {0}, closes : BOOLEAN]
    /\ liveEvents = 0
    /\ losses = 0
    /\ replayed = FALSE
    /\ switched = FALSE

CommittedEvents == DOMAIN history
Wanted == {n \in CommittedEvents : history[n].mine}

-----------------------------------------------------------------------------
(* appendHistoryEventPg *)

Taken == {writers[w] : w \in Writers} \ {0}

(* Mutant: numbers come from a counter, without the lock of the run. *)
AllocateFromCounter(w) ==
    writers' = [writers EXCEPT ![w] =
                  Max({0} \cup CommittedEvents \cup Taken) + 1]

(* The row of the run is locked from here to the commit. *)
Allocate(w) ==
    /\ Taken = {}
    /\ writers' = [writers EXCEPT ![w] = Max({0} \cup CommittedEvents) + 1]

BeginAppend(w) ==
    /\ writers[w] = 0
    /\ Max({0} \cup CommittedEvents \cup Taken) < MaxEvents
    /\ Allocate(w)
    /\ UNCHANGED <<history, ended, stream, frames, watcher, liveEvents, losses, replayed,
                   switched>>

(* An event that ends or reopens the run is committed with its status. *)
CommitAppend(w, kind, mine) ==
    /\ writers[w] # 0
    /\ history' = [n \in CommittedEvents \cup {writers[w]} |->
                     IF n = writers[w] THEN [kind |-> kind, mine |-> mine] ELSE history[n]]
    /\ ended' = CASE kind = "end" -> TRUE [] kind = "reopen" -> FALSE [] OTHER -> ended
    /\ writers' = [writers EXCEPT ![w] = 0]
    /\ UNCHANGED <<stream, frames, watcher, liveEvents, losses, replayed, switched>>

AbortAppend(w) ==
    /\ writers[w] # 0
    /\ writers' = [writers EXCEPT ![w] = 0]
    /\ UNCHANGED <<history, ended, stream, frames, watcher, liveEvents, losses, replayed,
                   switched>>

-----------------------------------------------------------------------------
(* createRuntimeEventStream *)

(* parseAfterSequence: the id of a live event is no number.                *)
ResumeAfter(cursor) == IF cursor = Live THEN 0 ELSE cursor

Connect ==
    /\ stream.at = "closed"
    /\ frames = << >>
    /\ stream' = [at |-> "polling", after |-> ResumeAfter(watcher.cursor)]
    /\ replayed' = (replayed \/ watcher.cursor = Live)
    /\ UNCHANGED <<history, writers, ended, frames, watcher, liveEvents, losses, switched>>

(* readRunEventsSince, one statement: ordered by sequence.                 *)
InSequence(events) ==
    {s \in [1..Cardinality(events) -> events] : \A i, j \in DOMAIN s : i < j => s[i] < s[j]}

EventsSince(after) == InSequence({n \in Wanted : n > after})

(* Mutant: the cursor counts the events that were sent. *)
CursorCounts(events) == stream.after + Len(events)

CursorAfter(events) == IF events = << >> THEN stream.after ELSE Last(events)

Tells(events) == \E i \in DOMAIN events : history[events[i]].kind = "end"

(* A tick sends what is new.  A stream that closes with its run closes     *)
(* when it has told the end, or else asks whether the run has ended.       *)
Tick ==
    /\ stream.at = "polling"
    /\ \E events \in EventsSince(stream.after) :
         /\ frames' = frames \o events
         /\ stream' = [after |-> CursorAfter(events),
                       at |-> IF ~watcher.closes THEN "polling"
                              ELSE IF Tells(events) THEN "ending" ELSE "checking"]
    /\ UNCHANGED <<history, writers, ended, watcher, liveEvents, losses, replayed, switched>>

(* isRunTerminal, a statement of its own: the end may have been committed  *)
(* since the events were read.                                             *)
CheckEnded ==
    /\ stream.at = "checking"
    /\ stream' = [stream EXCEPT !.at = IF ended THEN "ending" ELSE "polling"]
    /\ UNCHANGED <<history, writers, ended, frames, watcher, liveEvents, losses, replayed,
                   switched>>

(* broadcastRuntimeLiveEvent, between the statements of a tick *)
LiveEvent ==
    /\ liveEvents < MaxLive
    /\ stream.at \in {"polling", "checking"}
    /\ liveEvents' = liveEvents + 1
    /\ frames' = Append(frames, Live)
    /\ UNCHANGED <<history, writers, ended, stream, watcher, losses, replayed, switched>>

-----------------------------------------------------------------------------
(* useRuntimeEventStream *)

(* A panel drops its oldest event beyond its limit, live events counted.   *)
(* A client that closes with the run hands every event on.                 *)
Kept(list) == IF watcher.closes \/ Len(list) <= PanelLimit THEN list ELSE Tail(list)

Receive ==
    /\ frames # << >>
    /\ frames' = Tail(frames)
    /\ watcher' = [watcher EXCEPT !.cursor = Head(frames),
                                  !.shown = Kept(Append(@, Head(frames)))]
    /\ UNCHANGED <<history, writers, ended, stream, liveEvents, losses, replayed, switched>>

(* The stream has ended; the watcher connects again.                       *)
EndOfStream ==
    /\ stream.at = "ending"
    /\ frames = << >>
    /\ stream' = [stream EXCEPT !.at = "closed"]
    /\ UNCHANGED <<history, writers, ended, frames, watcher, liveEvents, losses, replayed,
                   switched>>

(* The frames on their way are lost with the connection.                   *)
LoseConnection ==
    /\ losses < MaxLosses
    /\ stream.at # "closed"
    /\ losses' = losses + 1
    /\ stream' = [stream EXCEPT !.at = "closed"]
    /\ frames' = << >>
    /\ UNCHANGED <<history, writers, ended, watcher, liveEvents, replayed, switched>>

(* The panel looks at another task and comes back: its list starts empty,  *)
(* its cursor does not.                                                    *)
LookElsewhere ==
    /\ ~switched /\ ~watcher.closes
    /\ switched' = TRUE
    /\ watcher' = [watcher EXCEPT !.shown = << >>]
    /\ stream' = [stream EXCEPT !.at = "closed"]
    /\ frames' = << >>
    /\ UNCHANGED <<history, writers, ended, liveEvents, losses, replayed>>

StreamNext ==
    \/ \E w \in Writers :
         \/ BeginAppend(w)
         \/ \E kind \in EventKinds, mine \in BOOLEAN :
              (kind = "step" \/ mine) /\ CommitAppend(w, kind, mine)
         \/ AbortAppend(w)
    \/ Connect \/ Tick \/ CheckEnded \/ LiveEvent
    \/ Receive \/ EndOfStream \/ LoseConnection \/ LookElsewhere

StreamSpec == StreamInit /\ [][StreamNext]_streamVars

-----------------------------------------------------------------------------

(* A watcher that has received event n has been shown every event of its   *)
(* task before n, whoever wrote them, whatever connections were lost: a    *)
(* number becomes visible only after all smaller ones                      *)
(* (appendHistoryEventPg), and the stream resumes where the watcher is.    *)
(* What is missing on a panel was pushed off a full list, by live events   *)
(* and events after it, never by earlier ones.  Not so once the panel has  *)
(* looked elsewhere.                                                       *)
EventsAreComplete ==
    ~switched /\ watcher.cursor # Live =>
        \A n \in Wanted : n <= watcher.cursor =>
            \/ \E i \in DOMAIN watcher.shown : watcher.shown[i] = n
            \/ /\ ~watcher.closes /\ Len(watcher.shown) = PanelLimit
               /\ \A i \in DOMAIN watcher.shown :
                    watcher.shown[i] = Live \/ watcher.shown[i] > n

(* No event is shown twice, unless the connection was lost right after a   *)
(* live event; live events are all different.                              *)
EventsComeOnce ==
    ~replayed =>
        \A i, j \in DOMAIN watcher.shown :
            watcher.shown[i] = watcher.shown[j] /\ watcher.shown[i] # Live => i = j

=============================================================================
