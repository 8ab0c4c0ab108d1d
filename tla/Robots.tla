--------------------------------- MODULE Robots ---------------------------------
(* The robots' adapters.  The two of memme-lerobot keep the events of an episode in a buffer, *)
(* and give them to the store as one text: the wrapper of a robot when the buffer is full or   *)
(* the episode ends, the logger when its episode ends.  The nodes for Dora and Copper store    *)
(* each event at once; their compact changes nothing, as no row of the session is made.        *)
EXTENDS Integers, Sequences, FiniteSets, SequencesExt

CONSTANTS
    BufferSize,              \* max_buffer_size
    MaxLogged, MaxAddErrors  \* bounds of the model

ASSUME RobotsAssumption == BufferSize \in Nat \ {0} /\ MaxLogged \in Nat /\ MaxAddErrors \in Nat

VARIABLES
    adapter,
    inEpisode,   \* there is a session id
    buffer,      \* _episode_events, _events: the events by their numbers
    logged,      \* the number of events so far
    texts,       \* the texts that memory.add took, each the sequence of its events
    dropped,     \* the events that connect, begin or the end of the process left out
    addErrors    \* bound of the model: calls of the store or the robot that raised

robotVars == <<adapter, inEpisode, buffer, logged, texts, dropped, addErrors>>

RobotInit ==
    /\ adapter \in {"wrapper", "logger", "dora", "copper"}
    /\ inEpisode = FALSE /\ buffer = << >> /\ logged = 0
    /\ texts = << >> /\ dropped = {} /\ addErrors = 0

Outcome(left, told, ends, errors) == [left |-> left, texts |-> told, ends |-> ends, errors |-> errors]

\* The text is the same as the one of an attempt before, which add finds by its hash.
Took(events) == IF events \in Range(texts) THEN texts ELSE Append(texts, events)

\* Mutant: the buffer is emptied before the text is stored.
FlushEmptiesFirst(events) ==
    IF events = << >> \/ (adapter = "wrapper" /\ ~inEpisode) THEN {Outcome(events, texts, "returned", addErrors)}
    ELSE {Outcome(<< >>, Took(events), "returned", addErrors)}
             \cup {Outcome(<< >>, told, "raised", addErrors + 1) : told \in {texts, Took(events)}}

\* The attempt to extract memories fails, as the store has no add_smart_messages, and the events become
\* one text.  The add may raise before or after it has stored it; the buffer is emptied when it has returned.
Flush(events) ==
    IF events = << >> \/ (adapter = "wrapper" /\ ~inEpisode) THEN {Outcome(events, texts, "returned", addErrors)}
    ELSE {Outcome(<< >>, Took(events), "returned", addErrors)}
             \cup {Outcome(events, told, "raised", addErrors + 1) : told \in {texts, Took(events)}}

Gives(out) ==
    /\ out.errors <= MaxAddErrors
    /\ buffer' = out.left /\ texts' = out.texts /\ addErrors' = out.errors

\* The last call of the robot fails, and its caller gets an exception.
RobotRaises == addErrors < MaxAddErrors /\ addErrors' = addErrors + 1

--------------------------------------------------------------------------------
(* MemoryEnhancedRobot *)

Connect ==
    /\ adapter = "wrapper"
    /\ inEpisode' = TRUE /\ buffer' = << >> /\ dropped' = dropped \cup Range(buffer)
    /\ UNCHANGED <<adapter, logged, texts, addErrors>>

\* _compact_episode, robot.disconnect, and the session ends when both have returned.
Disconnect ==
    /\ adapter = "wrapper"
    /\ \E out \in Flush(buffer) :
          \/ Gives(out) /\ inEpisode' = (inEpisode /\ out.ends = "raised")
          \/ out.ends = "returned" /\ RobotRaises /\ buffer' = out.left /\ texts' = out.texts /\ UNCHANGED inEpisode
    /\ UNCHANGED <<adapter, logged, dropped>>

\* _log_event: a full buffer is given away.
Log(event) ==
    LET events == Append(buffer, event)
    IN  IF Len(events) >= BufferSize THEN \E out \in Flush(events) : Gives(out)
        ELSE buffer' = events /\ UNCHANGED <<texts, addErrors>>

\* get_observation and send_action, with auto_store: the robot has acted when its event is logged.
LogEvent ==
    /\ adapter = "wrapper" /\ inEpisode /\ logged < MaxLogged
    /\ logged' = logged + 1 /\ Log(logged + 1)
    /\ UNCHANGED <<adapter, inEpisode, dropped>>

\* The session begins when the one before is stored.
StartEpisode ==
    /\ adapter = "wrapper"
    /\ \E out \in Flush(buffer) :
          /\ out.errors <= MaxAddErrors /\ texts' = out.texts /\ addErrors' = out.errors
          /\ IF out.ends = "raised" THEN buffer' = out.left /\ UNCHANGED inEpisode ELSE buffer' = << >> /\ inEpisode' = TRUE
    /\ UNCHANGED <<adapter, logged, dropped>>

EndEpisode ==
    /\ adapter = "wrapper"
    /\ \E out \in Flush(buffer) : Gives(out)
    /\ UNCHANGED <<adapter, inEpisode, logged, dropped>>

--------------------------------------------------------------------------------
(* EpisodeLogger *)

\* A task's description is the first event of its episode.
LoggerBegin ==
    /\ adapter = "logger"
    /\ inEpisode' = TRUE /\ dropped' = dropped \cup Range(buffer)
    /\ \/ buffer' = << >> /\ UNCHANGED logged
       \/ logged < MaxLogged /\ logged' = logged + 1 /\ buffer' = <<logged'>>
    /\ UNCHANGED <<adapter, texts, addErrors>>

\* observe, act, result, note: also before an episode begins.
LoggerRecord ==
    /\ adapter = "logger" /\ logged < MaxLogged
    /\ logged' = logged + 1 /\ buffer' = Append(buffer, logged + 1)
    /\ UNCHANGED <<adapter, inEpisode, texts, dropped, addErrors>>

LoggerEnd ==
    /\ adapter = "logger"
    /\ \E out \in Flush(buffer) : Gives(out) /\ inEpisode' = (inEpisode /\ out.ends = "raised")
    /\ UNCHANGED <<adapter, logged, dropped>>

--------------------------------------------------------------------------------
(* The nodes for Dora and Copper *)

\* One request, one event of its own.
Ingest ==
    /\ logged < MaxLogged
    /\ logged' = logged + 1 /\ texts' = Append(texts, <<logged + 1>>)
    /\ UNCHANGED <<adapter, inEpisode, buffer, dropped, addErrors>>

\* An event of an unknown type, or without its content or its user, is refused as well.
DoraEvent == adapter = "dora" /\ Ingest

\* An error is a response like the others.
CopperEvent == adapter = "copper" /\ Ingest

--------------------------------------------------------------------------------
(* The process ends: the buffer was its own. *)
RobotDies ==
    /\ buffer # << >>
    /\ inEpisode' = FALSE /\ buffer' = << >> /\ dropped' = dropped \cup Range(buffer)
    /\ UNCHANGED <<adapter, logged, texts, addErrors>>

RobotNext ==
    \/ Connect \/ Disconnect \/ LogEvent \/ StartEpisode \/ EndEpisode
    \/ LoggerBegin \/ LoggerRecord \/ LoggerEnd
    \/ DoraEvent \/ CopperEvent \/ RobotDies

RobotSpec == RobotInit /\ [][RobotNext]_robotVars

--------------------------------------------------------------------------------
(* Property *)

\* What a robot logged reaches the store whatever fails on the way: an event is in the buffer, in a text that
\* the store took, or was in the buffer when connect() or begin() emptied it or the process ended; the
\* events of a text are in the order they happened; and unless a call raised, which may have stored its
\* text all the same, no event is in two texts or still in the buffer as well, and the texts follow in order.
LoggedIsStored ==
    LET Ordered(events) == \A i, j \in DOMAIN events : i < j => events[i] < events[j]
    IN  /\ 1..logged = dropped \cup Range(buffer) \cup UNION {Range(text) : text \in Range(texts)}
        /\ Ordered(buffer) /\ \A text \in Range(texts) : Ordered(text)
        /\ addErrors = 0 => Ordered(FlattenSeq(texts) \o buffer)
================================================================================
